---- MODULE Spec2Model ----
(***************************************************************************)
(* A model of HandyLang: the tokenizer (src/src/tokenizer.py), the         *)
(* recursive-descent parser (src/src/parser.py), the two-table             *)
(* Environment (src/src/environment.py), the tree-walking Interpreter      *)
(* (src/src/interpreter.py) and the runner chaining them (src/handy.py).   *)
(*                                                                         *)
(* Texts are sequences of one-character strings, so that the regular       *)
(* expressions of the tokenizer and the string tests of the interpreter    *)
(* can be computed character by character.  Offsets are 0-based as in the  *)
(* Python source: the character at offset i of a text s is s[i + 1].       *)
(***************************************************************************)
EXTENDS Integers, Sequences, FiniteSets, TLC

VARIABLES
    env_vars,     \* Environment.vars   : name -> value
    env_consts,   \* Environment.consts : name -> value
    last_call,    \* the last Environment/Interpreter call and how it ended
    program,      \* Program.statements handed to Interpreter.run
    pc,           \* index (1-based) of the statement Interpreter.run is at
    argi,         \* number of arguments of the current print already emitted
    output,       \* the lines written to standard output by print
    status,       \* "idle" | "loaded" | "running" | "done" | "failed"
    error,        \* the exception that ended the run (NoErr while none)
    code,         \* tokenize: the source text
    pos,          \* tokenize: the offset the next match starts at
    tokens,       \* tokenize: the tokens appended so far
    line,         \* tokenize: the line counter
    line_start,   \* tokenize: the offset the columns are counted from
    kind,         \* tokenize: mo.lastgroup of the last match taken
    tok_status,   \* "idle" | "scanning" | "done" | "failed"
    tok_error,    \* the RuntimeError tokenize raised (NoErr while none)
    calls,        \* history: how many calls of tokenize have been entered
    ppos,         \* Parser: self.pos, the index (0-based) of the current token
    stmts,        \* Parser.parse: the statements parsed so far
    parse_status, \* "idle" | "parsing" | "returned" | "raised"
    parse_error   \* the exception that left Parser.parse (NoErr while none)

vars == <<env_vars, env_consts, last_call, program, pc, argi, output, status, error,
          code, pos, tokens, line, line_start, kind, tok_status, tok_error, calls,
          ppos, stmts, parse_status, parse_error>>

----------------------------------------------------------------------------
(* Bounds of the model *)

MaxSetup == 2
MaxTail == 1
MaxArgs == 2

----------------------------------------------------------------------------
(* Python values and exceptions *)

PyNone == [t |-> "None"]
PyInt(n) == [t |-> "int", n |-> n]
\* a float is kept as its integer part and its fraction digits, trailing
\* zeros dropped (1.50 and 1.5 are the same float)
PyFloat(ip, fd) == [t |-> "float", ip |-> ip, fd |-> fd]
PyStr(s) == [t |-> "str", s |-> s]

NoErr == [exc |-> "None"]
Raise(exc, fmt, arg) == [exc |-> exc, fmt |-> fmt, arg |-> arg]

Digits == {"0", "1", "2", "3", "4", "5", "6", "7", "8", "9"}
DigitVal(c) ==
    CASE c = "0" -> 0 [] c = "1" -> 1 [] c = "2" -> 2 [] c = "3" -> 3
      [] c = "4" -> 4 [] c = "5" -> 5 [] c = "6" -> 6 [] c = "7" -> 7
      [] c = "8" -> 8 [] c = "9" -> 9
DigitChar(d) ==
    CASE d = 0 -> "0" [] d = 1 -> "1" [] d = 2 -> "2" [] d = 3 -> "3"
      [] d = 4 -> "4" [] d = 5 -> "5" [] d = 6 -> "6" [] d = 7 -> "7"
      [] d = 8 -> "8" [] d = 9 -> "9"

AllDigits(s) == Len(s) > 0 /\ \A i \in 1..Len(s) : s[i] \in Digits

RECURSIVE DigitsToInt(_)
DigitsToInt(s) ==
    IF s = <<>> THEN 0
    ELSE 10 * DigitsToInt(SubSeq(s, 1, Len(s) - 1)) + DigitVal(s[Len(s)])

RECURSIVE IntToDigits(_)
IntToDigits(n) ==
    IF n < 10 THEN <<DigitChar(n)>>
    ELSE Append(IntToDigits(n \div 10), DigitChar(n % 10))

RECURSIVE StripTrailingZeros(_)
StripTrailingZeros(s) ==
    IF s # <<>> /\ s[Len(s)] = "0" THEN StripTrailingZeros(SubSeq(s, 1, Len(s) - 1))
    ELSE s

IndexOf(s, c) ==
    IF \E i \in 1..Len(s) : s[i] = c
    THEN CHOOSE i \in 1..Len(s) : s[i] = c /\ \A j \in 1..(i - 1) : s[j] # c
    ELSE 0

\* str(value) as print writes it: an int in decimal, a float as repr gives
\* it for the short decimals of the model (digits '.' digits), a str as is
str(v) ==
    CASE v.t = "int" -> IntToDigits(v.n)
      [] v.t = "float" -> IntToDigits(v.ip) \o <<".">> \o (IF v.fd = <<>> THEN <<"0">> ELSE v.fd)
      [] v.t = "str" -> v.s
      [] v.t = "None" -> <<"N", "o", "n", "e">>

----------------------------------------------------------------------------
(* Environment (src/src/environment.py) *)

\* dict assignment d[name] = value
DictSet(d, name, value) ==
    [k \in DOMAIN d \cup {name} |-> IF k = name THEN value ELSE d[k]]

EmptyDict == [k \in {} |-> PyNone]

\* Environment.set_var: self.vars[name] = value
set_var(ev, name, value) == DictSet(ev, name, value)

\* Environment.get_var: the variables table first, then the constants table
get_var_consts_first(ev, ec, name) ==
    IF name \in DOMAIN ec THEN [exc |-> NoErr, val |-> ec[name]]
    ELSE IF name \in DOMAIN ev THEN [exc |-> NoErr, val |-> ev[name]]
    ELSE [exc |-> Raise("NameError", "Variable '{}' not defined", name), val |-> PyNone]

get_var_default_none(ev, ec, name) ==
    IF name \in DOMAIN ev THEN [exc |-> NoErr, val |-> ev[name]]
    ELSE IF name \in DOMAIN ec THEN [exc |-> NoErr, val |-> ec[name]]
    ELSE [exc |-> NoErr, val |-> PyNone]

get_var(ev, ec, name) ==
    IF name \in DOMAIN ev THEN [exc |-> NoErr, val |-> ev[name]]
    ELSE IF name \in DOMAIN ec THEN [exc |-> NoErr, val |-> ec[name]]
    ELSE [exc |-> Raise("NameError", "Variable '{}' not defined", name), val |-> PyNone]

\* Environment.set_const: refuses a name already in consts
set_const_overwrite(ec, name, value) ==
    [exc |-> NoErr, consts |-> DictSet(ec, name, value)]

set_const(ec, name, value) ==
    IF name \in DOMAIN ec
    THEN [exc |-> Raise("ValueError", "Constant '{}' already defined", name), consts |-> ec]
    ELSE [exc |-> NoErr, consts |-> DictSet(ec, name, value)]

----------------------------------------------------------------------------
(* AST nodes (src/src/ast_nodes.py).  A node is a record tagged with its   *)
(* class; an absent child (Python None) is NoneNode, an absent type name   *)
(* is NoneType.                                                            *)

NoneNode == [kind |-> "None"]
NoneType == <<"None">>

Program(statements) == [kind |-> "Program", statements |-> statements]
VarDecl(name, type_, value) ==
    [kind |-> "VarDecl", name |-> name, type_ |-> type_, value |-> value]
ConstDecl(name, type_, value) ==
    [kind |-> "ConstDecl", name |-> name, type_ |-> type_, value |-> value]
FunctionDef(name, params, return_type, body) ==
    [kind |-> "FunctionDef", name |-> name, params |-> params,
     return_type |-> return_type, body |-> body]
Param(name, type_, default) ==
    [kind |-> "Param", name |-> name, type_ |-> type_, default |-> default]
Block(statements) == [kind |-> "Block", statements |-> statements]
IfStmt(condition, then_block, else_block) ==
    [kind |-> "IfStmt", condition |-> condition, then_block |-> then_block,
     else_block |-> else_block]
ForStmt(var_name, iterable, body) ==
    [kind |-> "ForStmt", var_name |-> var_name, iterable |-> iterable, body |-> body]
MatchStmt(expr, cases, else_block) ==
    [kind |-> "MatchStmt", expr |-> expr, cases |-> cases, else_block |-> else_block]
FunctionCall(name, args) == [kind |-> "FunctionCall", name |-> name, args |-> args]
\* (its child is kept as ret_value: Literal.value is a text, this one a node)
ReturnStmt(value) == [kind |-> "ReturnStmt", ret_value |-> value]
RaiseStmt(exception_type, message) ==
    [kind |-> "RaiseStmt", exception_type |-> exception_type, message |-> message]
TryStmt(try_block, except_blocks) ==
    [kind |-> "TryStmt", try_block |-> try_block, except_blocks |-> except_blocks]
Expression(left, operator, right) ==
    [kind |-> "Expression", left |-> left, operator |-> operator, right |-> right]
Literal(value) == [kind |-> "Literal", value |-> value]
Identifier(name) == [kind |-> "Identifier", name |-> name]
CodeBlock(params, body) == [kind |-> "CodeBlock", params |-> params, body |-> body]
MacroDef(name, params, body) ==
    [kind |-> "MacroDef", name |-> name, params |-> params, body |-> body]
ComptimeDef(name, params, body) ==
    [kind |-> "ComptimeDef", name |-> name, params |-> params, body |-> body]
TypeDef(name, base_type, fields, methods) ==
    [kind |-> "TypeDef", name |-> name, base_type |-> base_type,
     fields |-> fields, methods |-> methods]

\* type(node) as the interpreter's message shows it
TypeOf(node) == IF node.kind = "None" THEN <<"NoneType">> ELSE <<node.kind>>

----------------------------------------------------------------------------
(* Interpreter (src/src/interpreter.py) *)

print_ == <<"p", "r", "i", "n", "t">>
int_ == <<"i", "n", "t">>
float_ == <<"f", "l", "o", "a", "t">>
string_ == <<"s", "t", "r", "i", "n", "g">>
bool_ == <<"b", "o", "o", "l">>

Quote == "\""

\* Interpreter.parse_literal_value: quoted text -> str without its quotes,
\* text holding a '.' -> float, anything else -> int
parse_literal_value(value) ==
    IF Len(value) > 0 /\ value[1] = Quote /\ value[Len(value)] = Quote
    THEN [exc |-> NoErr, val |-> PyStr(SubSeq(value, 2, Len(value) - 1))]
    ELSE IF IndexOf(value, ".") > 0
    THEN LET dot == IndexOf(value, ".")
             ip == SubSeq(value, 1, dot - 1)
             fd == SubSeq(value, dot + 1, Len(value))
         IN  IF AllDigits(ip) /\ AllDigits(fd)
             THEN [exc |-> NoErr,
                   val |-> PyFloat(DigitsToInt(ip), StripTrailingZeros(fd))]
             ELSE [exc |-> Raise("ValueError", "could not convert string to float: '{}'", value),
                   val |-> PyNone]
    ELSE IF AllDigits(value)
    THEN [exc |-> NoErr, val |-> PyInt(DigitsToInt(value))]
    ELSE [exc |-> Raise("ValueError", "invalid literal for int() with base 10: '{}'", value),
          val |-> PyNone]

\* Interpreter.default_value: the zero value of a declared type
default_value_fallback(type_) ==
    IF type_ = int_ THEN [exc |-> NoErr, val |-> PyInt(0)]
    ELSE IF type_ = float_ THEN [exc |-> NoErr, val |-> PyFloat(0, <<>>)]
    ELSE IF type_ = string_ THEN [exc |-> NoErr, val |-> PyStr(<<>>)]
    ELSE [exc |-> NoErr, val |-> PyNone]

default_value(type_) ==
    IF type_ = int_ THEN [exc |-> NoErr, val |-> PyInt(0)]
    ELSE IF type_ = float_ THEN [exc |-> NoErr, val |-> PyFloat(0, <<>>)]
    ELSE IF type_ = string_ THEN [exc |-> NoErr, val |-> PyStr(<<>>)]
    ELSE [exc |-> Raise("ValueError", "No default value defined for type '{}'",
                        IF type_ = NoneType THEN <<"N", "o", "n", "e">> ELSE type_),
          val |-> PyNone]

\* the state eval works on: both tables and the output written so far
EvalState(ev, ec, out) == [vars |-> ev, consts |-> ec, out |-> out]
Result(st, exc, val) == [st |-> st, exc |-> exc, val |-> val]

RECURSIVE eval(_, _)
RECURSIVE eval_print_args(_, _, _)

\* for arg in node.args: the argument of iteration i (0-based)
next_arg_reversed(args, i) == args[Len(args) - i]

next_arg(args, i) == args[i + 1]

\* one iteration of the print loop: val = self.eval(arg); print(val)
print_iteration(arg, st) ==
    LET r == eval(arg, st) IN
    IF r.exc # NoErr THEN Result(r.st, r.exc, PyNone)
    ELSE Result([r.st EXCEPT !.out = Append(@, str(r.val))], NoErr, PyNone)

\* for arg in node.args, from argument i (1-based) on
eval_print_args(args, i, st) ==
    IF i > Len(args) THEN Result(st, NoErr, PyNone)
    ELSE LET r == print_iteration(next_arg(args, i - 1), st) IN
         IF r.exc # NoErr THEN r ELSE eval_print_args(args, i + 1, r.st)

\* Interpreter.eval
eval(node, st) ==
    IF node.kind = "VarDecl"
    THEN LET r == IF node.value # NoneNode
                  THEN eval(node.value, st)
                  ELSE LET d == default_value(node.type_) IN Result(st, d.exc, d.val)
         IN  IF r.exc # NoErr THEN Result(r.st, r.exc, PyNone)
             ELSE Result([r.st EXCEPT !.vars = set_var(@, node.name, r.val)], NoErr, PyNone)
    ELSE IF node.kind = "ConstDecl"
    THEN LET r == eval(node.value, st) IN
         IF r.exc # NoErr THEN Result(r.st, r.exc, PyNone)
         ELSE LET c == set_const(r.st.consts, node.name, r.val) IN
              Result([r.st EXCEPT !.consts = c.consts], c.exc, PyNone)
    ELSE IF node.kind = "FunctionCall"
    THEN IF node.name = print_
         THEN eval_print_args(node.args, 1, st)
         ELSE Result(st, Raise("NotImplementedError", "Function '{}' not implemented",
                               node.name), PyNone)
    ELSE IF node.kind = "Literal"
    THEN LET v == parse_literal_value(node.value) IN Result(st, v.exc, v.val)
    ELSE IF node.kind = "Identifier"
    THEN LET v == get_var(st.vars, st.consts, node.name) IN Result(st, v.exc, v.val)
    ELSE Result(st, Raise("NotImplementedError", "Node type {} not implemented yet",
                          TypeOf(node)), PyNone)

----------------------------------------------------------------------------
(* Tokenizer (src/src/tokenizer.py).  Each pattern of token_specification  *)
(* is an operator that gives the offset just after its match at offset p   *)
(* of the text c, or NoMatch.                                              *)

NoMatch == -1

Lower == {"a", "b", "c", "d", "e", "f", "g", "h", "i", "j", "k", "l", "m",
          "n", "o", "p", "q", "r", "s", "t", "u", "v", "w", "x", "y", "z"}
Upper == {"A", "B", "C", "D", "E", "F", "G", "H", "I", "J", "K", "L", "M",
          "N", "O", "P", "Q", "R", "S", "T", "U", "V", "W", "X", "Y", "Z"}
IdentStart == Lower \cup Upper \cup {"_"}
WordChars == IdentStart \cup Digits
Newline == "\n"
Backslash == "\\"

\* c[p] of the Python text, p 0-based
Ch(c, p) == c[p + 1]
InText(c, p) == 0 <= p /\ p < Len(c)
Is(c, p, S) == InText(c, p) /\ Ch(c, p) \in S
\* the literal text w stands at offset p
At(c, p, w) == p + Len(w) <= Len(c) /\ \A i \in 1..Len(w) : c[p + i] = w[i]
Lit(c, p, w) == IF At(c, p, w) THEN p + Len(w) ELSE NoMatch
MinOf(S) == CHOOSE m \in S : \A n \in S : m <= n

\* the end of the longest run of characters of S from p on (p itself when none)
RECURSIVE RunEnd(_, _, _)
RunEnd(c, p, S) == IF Is(c, p, S) THEN RunEnd(c, p + 1, S) ELSE p

\* \b : exactly one of the characters around offset p is a word character
WordBoundary(c, p) == Is(c, p - 1, WordChars) # Is(c, p, WordChars)

\* (a pattern list without block comments: """ is left to the patterns after it)
m_BLOCK_COMMENT_absent(c, p) == NoMatch
\* """(.|\n)*?""" : up to the first closing """ after the opening one
m_BLOCK_COMMENT(c, p) ==
    LET q3 == <<Quote, Quote, Quote>>
        closers == {j \in (p + 3)..(Len(c) - 3) : At(c, j, q3)}
    IN  IF At(c, p, q3) /\ closers # {} THEN MinOf(closers) + 3 ELSE NoMatch

\* #.* : to the end of the line
RECURSIVE LineEnd(_, _)
LineEnd(c, p) == IF InText(c, p) /\ Ch(c, p) # Newline THEN LineEnd(c, p + 1) ELSE p
m_COMMENT(c, p) == IF Is(c, p, {"#"}) THEN LineEnd(c, p + 1) ELSE NoMatch

\* \d+(\.\d+)?
m_NUMBER(c, p) ==
    IF ~Is(c, p, Digits) THEN NoMatch
    ELSE LET d == RunEnd(c, p, Digits) IN
         IF Is(c, d, {"."}) /\ Is(c, d + 1, Digits) THEN RunEnd(c, d + 1, Digits) ELSE d

\* "([^"\\]|\\.)*" : the body is read unit by unit, a unit being one
\* character other than " and \, or a \ with the character after it (any
\* but a newline); the match ends at the first " that is not part of a unit
RECURSIVE StringBody(_, _)
StringBody(c, p) ==
    IF ~InText(c, p) THEN NoMatch
    ELSE IF Ch(c, p) = Quote THEN p + 1
    ELSE IF Ch(c, p) = Backslash
    THEN IF InText(c, p + 1) /\ Ch(c, p + 1) # Newline THEN StringBody(c, p + 2) ELSE NoMatch
    ELSE StringBody(c, p + 1)
\* (a string pattern without escapes, "[^"]*": ends at the next quote)
m_STRING_no_escape(c, p) ==
    LET quotes == {j \in (p + 1)..(Len(c) - 1) : Ch(c, j) = Quote}
    IN  IF Is(c, p, {Quote}) /\ quotes # {} THEN MinOf(quotes) + 1 ELSE NoMatch
m_STRING(c, p) == IF Is(c, p, {Quote}) THEN StringBody(c, p + 1) ELSE NoMatch

True_ == <<"T", "r", "u", "e">>
False_ == <<"F", "a", "l", "s", "e">>
null_ == <<"n", "u", "l", "l">>

\* \b(True|False)\b
m_BOOL(c, p) ==
    IF ~WordBoundary(c, p) THEN NoMatch
    ELSE IF At(c, p, True_) /\ WordBoundary(c, p + 4) THEN p + 4
    ELSE IF At(c, p, False_) /\ WordBoundary(c, p + 5) THEN p + 5
    ELSE NoMatch

\* \bnull\b
m_NULL(c, p) ==
    IF WordBoundary(c, p) /\ At(c, p, null_) /\ WordBoundary(c, p + 4) THEN p + 4 ELSE NoMatch

\* [A-Za-z_][A-Za-z0-9_]*
m_IDENT(c, p) == IF Is(c, p, IdentStart) THEN RunEnd(c, p + 1, WordChars) ELSE NoMatch

\* ==|!=|>=|<=|//|[\+\-\*/%<>]
m_OP(c, p) ==
    IF At(c, p, <<"=", "=">>) \/ At(c, p, <<"!", "=">>) \/ At(c, p, <<">", "=">>)
         \/ At(c, p, <<"<", "=">>) \/ At(c, p, <<"/", "/">>)
    THEN p + 2
    ELSE IF Is(c, p, {"+", "-", "*", "/", "%", "<", ">"}) THEN p + 1
    ELSE NoMatch

\* [ \t]+
\* ([ \t]* : a run of blanks that may be empty)
m_SKIP_or_nothing(c, p) == IF Is(c, p, {" ", "\t"}) THEN RunEnd(c, p, {" ", "\t"}) ELSE p
m_SKIP(c, p) == IF Is(c, p, {" ", "\t"}) THEN RunEnd(c, p, {" ", "\t"}) ELSE NoMatch

\* . : any character but a newline
m_MISMATCH(c, p) == IF InText(c, p) /\ Ch(c, p) # Newline THEN p + 1 ELSE NoMatch

\* the names of token_specification, in its order
token_specification ==
    << "BLOCK_COMMENT", "COMMENT", "NUMBER", "STRING", "BOOL", "NULL", "IDENT",
       "AT", "ASSIGN", "OP", "ARROW", "COLON", "COMMA", "SEMICOLON", "LPAREN",
       "RPAREN", "LBRACE", "RBRACE", "LBRACKET", "RBRACKET", "NEWLINE", "SKIP",
       "MISMATCH" >>

\* the pattern named n tried at offset p
Match(n, c, p) ==
    CASE n = "BLOCK_COMMENT" -> m_BLOCK_COMMENT(c, p)
      [] n = "COMMENT" -> m_COMMENT(c, p)
      [] n = "NUMBER" -> m_NUMBER(c, p)
      [] n = "STRING" -> m_STRING(c, p)
      [] n = "BOOL" -> m_BOOL(c, p)
      [] n = "NULL" -> m_NULL(c, p)
      [] n = "IDENT" -> m_IDENT(c, p)
      [] n = "AT" -> Lit(c, p, <<"@">>)
      [] n = "ASSIGN" -> Lit(c, p, <<"=">>)
      [] n = "OP" -> m_OP(c, p)
      [] n = "ARROW" -> Lit(c, p, <<"-", ">">>)
      [] n = "COLON" -> Lit(c, p, <<":">>)
      [] n = "COMMA" -> Lit(c, p, <<",">>)
      [] n = "SEMICOLON" -> Lit(c, p, <<";">>)
      [] n = "LPAREN" -> Lit(c, p, <<"(">>)
      [] n = "RPAREN" -> Lit(c, p, <<")">>)
      [] n = "LBRACE" -> Lit(c, p, <<"{">>)
      [] n = "RBRACE" -> Lit(c, p, <<"}">>)
      [] n = "LBRACKET" -> Lit(c, p, <<"[">>)
      [] n = "RBRACKET" -> Lit(c, p, <<"]">>)
      [] n = "NEWLINE" -> Lit(c, p, <<Newline>>)
      [] n = "SKIP" -> m_SKIP(c, p)
      [] n = "MISMATCH" -> m_MISMATCH(c, p)

\* the match object: which group matched, and where the match ends
NoneMatch == [lastgroup |-> "None", end |-> NoMatch]

\* (a scanner that takes the longest match, the earliest pattern on a tie)
get_token_longest(c, p) ==
    LET hits == {k \in 1..Len(token_specification) : Match(token_specification[k], c, p) # NoMatch}
        best == {k \in hits : \A j \in hits :
                    Match(token_specification[j], c, p) <= Match(token_specification[k], c, p)}
    IN  IF hits = {} THEN NoneMatch
        ELSE [lastgroup |-> token_specification[MinOf(best)],
              end |-> Match(token_specification[MinOf(best)], c, p)]

\* the alternatives of tok_regex from the k-th on, tried in order
RECURSIVE first_match(_, _, _)
first_match(c, p, k) ==
    IF k > Len(token_specification) THEN NoneMatch
    ELSE LET e == Match(token_specification[k], c, p) IN
         IF e # NoMatch THEN [lastgroup |-> token_specification[k], end |-> e]
         ELSE first_match(c, p, k + 1)

\* get_token = re.compile(tok_regex).match: the alternatives are tried in
\* the order of token_specification and the first that matches is taken
get_token(c, p) == first_match(c, p, 1)

\* Keywords
keywords ==
    { <<"v", "a", "r">>, <<"c", "o", "n", "s", "t">>, <<"d", "e", "f">>,
      <<"m", "a", "c", "r", "o">>, <<"c", "o", "m", "p", "t", "i", "m", "e">>,
      <<"t", "y", "p", "e">>, <<"e", "x", "t", "e", "n", "d", "s">>,
      <<"i", "f">>, <<"e", "l", "s", "e">>, <<"f", "o", "r">>, <<"i", "n">>,
      <<"m", "a", "t", "c", "h">>, <<"t", "r", "y">>,
      <<"e", "x", "c", "e", "p", "t">>, <<"r", "a", "i", "s", "e">>,
      <<"r", "e", "t", "u", "r", "n">>, <<"t", "e", "s", "t">>,
      <<"a", "s", "s", "e", "r", "t", "E", "q", "u", "a", "l">>,
      <<"a", "s", "s", "e", "r", "t", "N", "o", "t", "E", "q", "u", "a", "l">>,
      <<"a", "s", "s", "e", "r", "t", "T", "r", "u", "e">>,
      <<"a", "s", "s", "e", "r", "t", "F", "a", "l", "s", "e">>,
      <<"a", "s", "s", "e", "r", "t", "R", "a", "i", "s", "e", "s">>,
      print_, null_, True_, False_,
      <<"n", "u", "m", "b", "e", "r">>, float_, int_, string_, bool_,
      <<"l", "i", "s", "t">>, <<"d", "i", "c", "t">> }

\* code.split('\n')[line_idx], or "" when there is no such line
LineOfOffset(c, p) == 1 + Cardinality({j \in 0..(p - 1) : Ch(c, j) = Newline})
line_text_of(c, line_idx) ==
    LET at == {p \in 0..(Len(c) - 1) :
                 Ch(c, p) # Newline /\ LineOfOffset(c, p) = line_idx + 1}
    IN  IF at = {} THEN <<>>
        ELSE SubSeq(c, MinOf(at) + 1, MinOf(at) + Cardinality(at))

\* value.count('\n') and value.rfind('\n')
count_newlines(value) == Cardinality({i \in 1..Len(value) : value[i] = Newline})
\* (value.find('\n'): the first newline, not the last)
find_newline(value) ==
    IF count_newlines(value) = 0 THEN -1
    ELSE (CHOOSE i \in 1..Len(value) :
            value[i] = Newline /\ \A j \in 1..(i - 1) : value[j] # Newline) - 1
rfind_newline(value) ==
    IF count_newlines(value) = 0 THEN -1
    ELSE (CHOOSE i \in 1..Len(value) :
            value[i] = Newline /\ \A j \in (i + 1)..Len(value) : value[j] # Newline) - 1

Token(type, value, ln, col, text) ==
    [type |-> type, value |-> value, line |-> ln, col |-> col, line_text |-> text]

EmittedKinds ==
    {"NUMBER", "STRING", "BOOL", "NULL", "AT", "OP", "ASSIGN", "ARROW", "COLON",
     "COMMA", "SEMICOLON", "LPAREN", "RPAREN", "LBRACE", "RBRACE", "LBRACKET",
     "RBRACKET"}

\* the local variables of tokenize
TokState(p, toks, ln, ls, k, st, err) ==
    [pos |-> p, tokens |-> toks, line |-> ln, line_start |-> ls, kind |-> k,
     status |-> st, error |-> err]

TokStart == TokState(0, <<>>, 1, 0, "None", "scanning", NoErr)

\* the RuntimeError of the MISMATCH branch
LexicalError(value, ln, col, text) ==
    [exc |-> "RuntimeError", character |-> value, line |-> ln, col |-> col,
     line_text |-> text, caret_pad |-> col + Len(IntToDigits(ln)) + 1]

\* (a classification that never turns an IDENT match into a KEYWORD)
token_type_always_ident(value) == "IDENT"
\* token_type = 'KEYWORD' if value in keywords else 'IDENT'
token_type(value) == IF value \in keywords THEN "KEYWORD" ELSE "IDENT"

\* one pass through the body of `while mo:`, or the return when mo is None
tokenize_step(c, s) ==
    LET mo == get_token(c, s.pos) IN
    IF mo = NoneMatch
    THEN [s EXCEPT !.status = "done"]
    ELSE LET k == mo.lastgroup
             value == SubSeq(c, s.pos + 1, mo.end)
             col == s.pos - s.line_start + 1
             text == line_text_of(c, s.line - 1)
             next == [s EXCEPT !.pos = mo.end, !.kind = k]
         IN  IF k = "NEWLINE"
             THEN [next EXCEPT !.line = s.line + 1, !.line_start = mo.end]
             ELSE IF k \in {"COMMENT", "SKIP"}
             THEN next
             ELSE IF k = "BLOCK_COMMENT"
             THEN IF count_newlines(value) > 0
                  THEN [next EXCEPT !.line = s.line + count_newlines(value),
                                    !.line_start = s.pos + rfind_newline(value) + 1]
                  ELSE next
             ELSE IF k = "IDENT"
             THEN [next EXCEPT !.tokens =
                      Append(@, Token(token_type(value), value, s.line, col, text))]
             ELSE IF k \in EmittedKinds
             THEN [next EXCEPT !.tokens = Append(@, Token(k, value, s.line, col, text))]
             ELSE \* MISMATCH
                  [s EXCEPT !.kind = k, !.status = "failed",
                            !.error = LexicalError(value, s.line, col, text)]

RECURSIVE tokenize_from(_, _)
tokenize_from(c, s) ==
    IF s.status # "scanning" THEN s
    ELSE CHOOSE r \in {tokenize_from(c, t) : t \in {tokenize_step(c, s)}} : TRUE

\* tokenize(code): the final state of the scan (its token list, or its error)
tokenize(c) == tokenize_from(c, TokStart)

----------------------------------------------------------------------------
(* Parser (src/src/parser.py).  self.tokens is toks, self.pos is p         *)
(* (0-based).  Every parse function returns the exception it raised        *)
(* (NoErr when it returned), self.pos as it leaves it, and what it         *)
(* returns.                                                                *)

\* Python's None where a text is expected, and how an f-string shows a value
None_ == NoneType
NoneText == <<"N", "o", "n", "e">>
Show(v) == IF v = None_ THEN NoneText ELSE v

\* {'type': None, 'value': None}
EndToken == [type |-> "None", value |-> None_]

PTok(exc, p, tok) == [exc |-> exc, pos |-> p, tok |-> tok]
PNode(exc, p, node) == [exc |-> exc, pos |-> p, node |-> node]
PList(exc, p, items) == [exc |-> exc, pos |-> p, items |-> items]

\* a message: its format, the token kinds and the texts put into it
Msg(fmt, kinds, texts) == [fmt |-> fmt, kinds |-> kinds, texts |-> texts]

\* Parser.peek
peek(toks, p) == IF p < Len(toks) THEN toks[p + 1] ELSE EndToken

\* the SyntaxError of _report_error: "file:line:col: message", then the
\* line of code and a caret line when the token has a line text
LocatedSyntaxError(token, message) ==
    [exc |-> "SyntaxError", located |-> TRUE, line |-> token.line, col |-> token.col,
     message |-> message, context |-> token.line_text # <<>>,
     line_text |-> token.line_text,
     pointer_pad |-> Len(IntToDigits(token.line)) + 2 + (token.col - 1)]
\* "file: message", when there is no token at all
BareSyntaxError(message) ==
    [exc |-> "SyntaxError", located |-> FALSE, line |-> 0, col |-> 0,
     message |-> message, context |-> FALSE, line_text |-> <<>>, pointer_pad |-> 0]
\* self.tokens[i] with i past the end of the list
IndexError == [exc |-> "IndexError", text |-> "list index out of range"]

\* (an error report that shows the last token whenever the cursor is past the end)
report_error_clamped(toks, p, message) ==
    IF p >= Len(toks) /\ p > 0 THEN LocatedSyntaxError(toks[Len(toks)], message)
    ELSE IF p < Len(toks) THEN LocatedSyntaxError(toks[p + 1], message)
    ELSE BareSyntaxError(message)

\* Parser._report_error: the exception it raises
report_error(toks, p, message) ==
    IF p >= Len(toks) /\ p > 0
    THEN IF p - 1 < Len(toks) THEN LocatedSyntaxError(toks[p], message) ELSE IndexError
    ELSE IF p < Len(toks) THEN LocatedSyntaxError(toks[p + 1], message)
    ELSE BareSyntaxError(message)

\* Parser.expect (value = None_ when only the kind is asked for)
expect(toks, p, kind_, value) ==
    LET token == peek(toks, p) IN
    IF token.type # kind_ \/ (value # None_ /\ token.value # value)
    THEN PTok(report_error(toks, p + 1,
                  Msg("Expected {}, got {}", <<kind_, token.type>>,
                      <<IF value # None_ /\ value # <<>> THEN value ELSE <<>>,
                        Show(token.value)>>)),
              p + 1, token)
    ELSE PTok(NoErr, p + 1, token)

\* except Exception as e: if not isinstance(e, SyntaxError):
\*     self._report_error(f"<what>: {str(e)}"); raise
rewrap(toks, exc, p, what) ==
    IF exc = NoErr \/ exc.exc = "SyntaxError" THEN exc
    ELSE report_error(toks, p, Msg(what, <<exc.text>>, <<>>))

\* In the parse functions below, Bind(call, LAMBDA x : rest) stands for
\* `x = call` followed by the rest of the function body: the call is
\* evaluated once and the rest works on its result.

\* the exception e.exc leaves a parse function through its except clause
\* (what is the text that clause puts before a foreign exception)
Leave(toks, e, what) == PNode(rewrap(toks, e.exc, e.pos, what), e.pos, NoneNode)

\* Parser.parse_expression
parse_expression(toks, p) ==
    LET token == peek(toks, p)
        what == "Error parsing expression: {}"
    IN  IF token.type \in {"NUMBER", "STRING"} THEN PNode(NoErr, p + 1, Literal(token.value))
        ELSE IF token.type = "IDENT" THEN PNode(NoErr, p + 1, Identifier(token.value))
        ELSE Leave(toks,
                   PTok(report_error(toks, p + 1,
                            Msg("Unexpected token in expression: {} with value '{}'",
                                <<token.type>>, <<Show(token.value)>>)),
                        p + 1, token),
                   what)

\* if self.peek()['type'] == intro: self.advance(); x = self.expect('KEYWORD')['value']
\* (x stays None otherwise): the type after a COLON, the return type after an ARROW
optional_keyword(toks, p, intro) ==
    LET Bind(x, rest(_)) == CHOOSE r \in {rest(v) : v \in {x}} : TRUE IN
    IF peek(toks, p).type = intro
    THEN Bind(expect(toks, p + 1, "KEYWORD", None_),
              LAMBDA e : [exc |-> e.exc, pos |-> e.pos, value |-> e.tok.value])
    ELSE [exc |-> NoErr, pos |-> p, value |-> None_]

\* if self.peek()['type'] == 'ASSIGN': self.advance(); x = self.parse_expression()
optional_value(toks, p) ==
    IF peek(toks, p).type = "ASSIGN" THEN parse_expression(toks, p + 1)
    ELSE PNode(NoErr, p, NoneNode)

\* Parser.parse_var_decl
parse_var_decl(toks, p) ==
    LET what == "Error parsing variable declaration: {}"
        Bind(x, rest(_)) == CHOOSE r \in {rest(v) : v \in {x}} : TRUE IN
    Bind(expect(toks, p, "KEYWORD", <<"v", "a", "r">>), LAMBDA kw :
    IF kw.exc # NoErr THEN Leave(toks, kw, what) ELSE
    Bind(expect(toks, kw.pos, "IDENT", None_), LAMBDA name :
    IF name.exc # NoErr THEN Leave(toks, name, what) ELSE
    Bind(optional_keyword(toks, name.pos, "COLON"), LAMBDA type_ :
    IF type_.exc # NoErr THEN Leave(toks, type_, what) ELSE
    Bind(optional_value(toks, type_.pos), LAMBDA value :
    IF value.exc # NoErr THEN Leave(toks, value, what) ELSE
    PNode(NoErr, value.pos, VarDecl(name.tok.value, type_.value, value.node))))))

\* Parser.parse_const_decl
parse_const_decl(toks, p) ==
    LET what == "Error parsing constant declaration: {}"
        Bind(x, rest(_)) == CHOOSE r \in {rest(v) : v \in {x}} : TRUE IN
    Bind(expect(toks, p, "KEYWORD", <<"c", "o", "n", "s", "t">>), LAMBDA kw :
    IF kw.exc # NoErr THEN Leave(toks, kw, what) ELSE
    Bind(expect(toks, kw.pos, "IDENT", None_), LAMBDA name :
    IF name.exc # NoErr THEN Leave(toks, name, what) ELSE
    Bind(optional_keyword(toks, name.pos, "COLON"), LAMBDA type_ :
    IF type_.exc # NoErr THEN Leave(toks, type_, what) ELSE
    Bind(expect(toks, type_.pos, "ASSIGN", None_), LAMBDA eq :
    IF eq.exc # NoErr THEN Leave(toks, eq, what) ELSE
    Bind(parse_expression(toks, eq.pos), LAMBDA value :
    IF value.exc # NoErr THEN Leave(toks, value, what) ELSE
    PNode(NoErr, value.pos, ConstDecl(name.tok.value, type_.value, value.node)))))))

\* Parser.parse_param_list: the while loop, params being the list so far
RECURSIVE param_loop(_, _, _)
param_loop(toks, p, params) ==
    LET Bind(x, rest(_)) == CHOOSE r \in {rest(v) : v \in {x}} : TRUE IN
    IF peek(toks, p).type = "RPAREN" THEN PList(NoErr, p, params) ELSE
    Bind(expect(toks, p, "IDENT", None_), LAMBDA pname :
    IF pname.exc # NoErr THEN PList(pname.exc, pname.pos, params) ELSE
    Bind(optional_keyword(toks, pname.pos, "COLON"), LAMBDA ptype :
    IF ptype.exc # NoErr THEN PList(ptype.exc, ptype.pos, params) ELSE
    Bind(optional_value(toks, ptype.pos), LAMBDA default :
    IF default.exc # NoErr THEN PList(default.exc, default.pos, params) ELSE
    Bind([pos |-> IF peek(toks, default.pos).type = "COMMA"
                  THEN default.pos + 1 ELSE default.pos,
          items |-> Append(params, Param(pname.tok.value, ptype.value, default.node))],
         LAMBDA next : param_loop(toks, next.pos, next.items)))))
parse_param_list(toks, p) ==
    LET Bind(x, rest(_)) == CHOOSE r \in {rest(v) : v \in {x}} : TRUE IN
    Bind(param_loop(toks, p, <<>>), LAMBDA r :
    [r EXCEPT !.exc = rewrap(toks, @, r.pos, "Error parsing parameter list: {}")])

\* Parser.parse_print_statement: the while loop, args being the list so far
RECURSIVE print_loop(_, _, _)
print_loop(toks, p, args) ==
    LET Bind(x, rest(_)) == CHOOSE r \in {rest(v) : v \in {x}} : TRUE IN
    IF peek(toks, p).type = "RPAREN" THEN PList(NoErr, p, args) ELSE
    Bind(parse_expression(toks, p), LAMBDA arg :
    IF arg.exc # NoErr THEN PList(arg.exc, arg.pos, args) ELSE
    Bind([pos |-> IF peek(toks, arg.pos).type = "COMMA" THEN arg.pos + 1 ELSE arg.pos,
          items |-> Append(args, arg.node)],
         LAMBDA next : print_loop(toks, next.pos, next.items)))
parse_print_statement(toks, p) ==
    LET what == "Error parsing print statement: {}"
        Bind(x, rest(_)) == CHOOSE r \in {rest(v) : v \in {x}} : TRUE IN
    Bind(expect(toks, p, "KEYWORD", print_), LAMBDA kw :
    IF kw.exc # NoErr THEN Leave(toks, kw, what) ELSE
    Bind(expect(toks, kw.pos, "LPAREN", None_), LAMBDA open :
    IF open.exc # NoErr THEN Leave(toks, open, what) ELSE
    Bind(print_loop(toks, open.pos, <<>>), LAMBDA args :
    IF args.exc # NoErr THEN Leave(toks, args, what) ELSE
    Bind(expect(toks, args.pos, "RPAREN", None_), LAMBDA close :
    IF close.exc # NoErr THEN Leave(toks, close, what) ELSE
    PNode(NoErr, close.pos, FunctionCall(print_, args.items))))))

\* (stub productions that accept the keyword and build a node for it)
parse_stub_accepts(toks, p, what) == PNode(NoErr, p + 1, ReturnStmt(NoneNode))
\* parse_if_stmt, parse_for_stmt, parse_match_stmt, parse_return_stmt,
\* parse_raise_stmt: self._report_error("... not yet implemented")
parse_stub(toks, p, what) ==
    PNode(report_error(toks, p, Msg(what, <<>>, <<>>)), p, NoneNode)

RECURSIVE parse_statement(_, _)
RECURSIVE block_loop(_, _, _)

\* Parser.parse_block: the while loop, statements being the list so far
block_loop(toks, p, statements) ==
    LET Bind(x, rest(_)) == CHOOSE r \in {rest(v) : v \in {x}} : TRUE IN
    IF peek(toks, p).type = "RBRACE" THEN PList(NoErr, p, statements) ELSE
    Bind(parse_statement(toks, p), LAMBDA s :
    IF s.exc # NoErr THEN PList(s.exc, s.pos, statements) ELSE
    Bind(Append(statements, s.node), LAMBDA items : block_loop(toks, s.pos, items)))
parse_block(toks, p) ==
    LET what == "Error parsing code block: {}"
        Bind(x, rest(_)) == CHOOSE r \in {rest(v) : v \in {x}} : TRUE IN
    Bind(expect(toks, p, "LBRACE", None_), LAMBDA open :
    IF open.exc # NoErr THEN Leave(toks, open, what) ELSE
    Bind(block_loop(toks, open.pos, <<>>), LAMBDA body :
    IF body.exc # NoErr THEN Leave(toks, body, what) ELSE
    Bind(expect(toks, body.pos, "RBRACE", None_), LAMBDA close :
    IF close.exc # NoErr THEN Leave(toks, close, what) ELSE
    PNode(NoErr, close.pos, Block(body.items)))))

\* Parser.parse_function_def
parse_function_def(toks, p) ==
    LET what == "Error parsing function definition: {}"
        Bind(x, rest(_)) == CHOOSE r \in {rest(v) : v \in {x}} : TRUE IN
    Bind(expect(toks, p, "KEYWORD", <<"d", "e", "f">>), LAMBDA kw :
    IF kw.exc # NoErr THEN Leave(toks, kw, what) ELSE
    Bind(expect(toks, kw.pos, "IDENT", None_), LAMBDA name :
    IF name.exc # NoErr THEN Leave(toks, name, what) ELSE
    Bind(expect(toks, name.pos, "LPAREN", None_), LAMBDA open :
    IF open.exc # NoErr THEN Leave(toks, open, what) ELSE
    Bind(parse_param_list(toks, open.pos), LAMBDA params :
    IF params.exc # NoErr THEN Leave(toks, params, what) ELSE
    Bind(expect(toks, params.pos, "RPAREN", None_), LAMBDA close :
    IF close.exc # NoErr THEN Leave(toks, close, what) ELSE
    Bind(optional_keyword(toks, close.pos, "ARROW"), LAMBDA return_type :
    IF return_type.exc # NoErr THEN Leave(toks, return_type, what) ELSE
    Bind(parse_block(toks, return_type.pos), LAMBDA body :
    IF body.exc # NoErr THEN Leave(toks, body, what) ELSE
    PNode(NoErr, body.pos,
          FunctionDef(name.tok.value, params.items, return_type.value, body.node)))))))))

\* Parser.parse_statement: the dispatch on the leading keyword
dispatch(toks, p) ==
    LET token == peek(toks, p)
        value == token.value
    IN  IF token.type # "KEYWORD" THEN parse_expression(toks, p)
        ELSE IF value = <<"v", "a", "r">> THEN parse_var_decl(toks, p)
        ELSE IF value = <<"c", "o", "n", "s", "t">> THEN parse_const_decl(toks, p)
        ELSE IF value = <<"d", "e", "f">> THEN parse_function_def(toks, p)
        ELSE IF value = <<"i", "f">>
        THEN parse_stub(toks, p, "If statement parsing not yet implemented")
        ELSE IF value = <<"f", "o", "r">>
        THEN parse_stub(toks, p, "For loop parsing not yet implemented")
        ELSE IF value = <<"m", "a", "t", "c", "h">>
        THEN parse_stub(toks, p, "Match statement parsing not yet implemented")
        ELSE IF value = <<"r", "e", "t", "u", "r", "n">>
        THEN parse_stub(toks, p, "Return statement parsing not yet implemented")
        ELSE IF value = <<"r", "a", "i", "s", "e">>
        THEN parse_stub(toks, p, "Raise statement parsing not yet implemented")
        ELSE IF value = print_ THEN parse_print_statement(toks, p)
        ELSE parse_expression(toks, p)
parse_statement(toks, p) ==
    LET Bind(x, rest(_)) == CHOOSE r \in {rest(v) : v \in {x}} : TRUE IN
    Bind(dispatch(toks, p), LAMBDA r :
    [r EXCEPT !.exc = rewrap(toks, @, r.pos, "Error parsing statement: {}")])

\* (a loop test that takes the stream as ended only once a token was consumed)
at_end_after_a_token(toks, p) == p >= Len(toks) /\ p > 0
\* not self.peek()['type']: the loop test of parse, false at a token and
\* true at the end sentinel, whose type is None
at_end(toks, p) == peek(toks, p).type = "None"

\* Parser.parse: the while loop, statements being the list so far
RECURSIVE parse_loop(_, _, _)
parse_loop(toks, p, statements) ==
    LET Bind(x, rest(_)) == CHOOSE r \in {rest(v) : v \in {x}} : TRUE IN
    IF at_end(toks, p) THEN PList(NoErr, p, statements) ELSE
    Bind(parse_statement(toks, p), LAMBDA s :
    IF s.exc # NoErr THEN PList(s.exc, s.pos, statements) ELSE
    Bind(Append(statements, s.node), LAMBDA items : parse_loop(toks, s.pos, items)))
\* Parser(tokens, filename).parse(): the Program, or the exception that escapes
parse(toks) ==
    LET Bind(x, rest(_)) == CHOOSE r \in {rest(v) : v \in {x}} : TRUE IN
    Bind(parse_loop(toks, 0, <<>>), LAMBDA r :
    Bind(rewrap(toks, r.exc, r.pos, "Parsing error: {}"), LAMBDA exc :
    PNode(exc, r.pos, IF exc = NoErr THEN Program(r.items) ELSE NoneNode)))

----------------------------------------------------------------------------
(* The Environment driven directly through its three methods *)

x_ == <<"x">>
y_ == <<"y">>
EnvNames == {x_, y_}
EnvValues == {PyInt(1), PyInt(2), PyStr(<<>>)}

NoCall == [op |-> "none"]

InitCommon ==
    /\ env_vars = EmptyDict
    /\ env_consts = EmptyDict
    /\ last_call = NoCall
    /\ pc = 1
    /\ argi = 0
    /\ output = <<>>
    /\ error = NoErr

\* tokenize has not been called
InitNoTokenizer ==
    /\ code = <<>>
    /\ pos = 0
    /\ tokens = <<>>
    /\ line = 1
    /\ line_start = 0
    /\ kind = "None"
    /\ tok_status = "idle"
    /\ tok_error = NoErr
    /\ calls = 0

\* no Parser has been constructed
InitNoParser ==
    /\ ppos = 0
    /\ stmts = <<>>
    /\ parse_status = "idle"
    /\ parse_error = NoErr

InitEnv ==
    /\ InitCommon
    /\ InitNoParser
    /\ InitNoTokenizer
    /\ program = <<>>
    /\ status = "idle"

interp_vars == <<program, pc, argi, output, status, error>>
tok_vars == <<code, pos, tokens, line, line_start, kind, tok_status, tok_error, calls>>
parse_vars == <<ppos, stmts, parse_status, parse_error>>

CallSetVar(name, value) ==
    /\ status = "idle"
    /\ env_vars' = set_var(env_vars, name, value)
    /\ last_call' = [op |-> "set_var", name |-> name, value |-> value,
                     exc |-> NoErr, val |-> PyNone]
    /\ UNCHANGED <<env_consts, interp_vars, tok_vars, parse_vars>>

CallSetConst(name, value) ==
    /\ status = "idle"
    /\ LET r == set_const(env_consts, name, value) IN
        /\ env_consts' = r.consts
        /\ last_call' = [op |-> "set_const", name |-> name, value |-> value,
                         exc |-> r.exc, val |-> PyNone]
    /\ UNCHANGED <<env_vars, interp_vars, tok_vars, parse_vars>>

CallGetVar(name) ==
    /\ status = "idle"
    /\ LET r == get_var(env_vars, env_consts, name) IN
        last_call' = [op |-> "get_var", name |-> name, value |-> PyNone,
                      exc |-> r.exc, val |-> r.val]
    /\ UNCHANGED <<env_vars, env_consts, interp_vars, tok_vars, parse_vars>>

NextEnv ==
    \/ \E name \in EnvNames, value \in EnvValues : CallSetVar(name, value)
    \/ \E name \in EnvNames, value \in EnvValues : CallSetConst(name, value)
    \/ \E name \in EnvNames : CallGetVar(name)

SpecEnv == InitEnv /\ [][NextEnv]_vars

----------------------------------------------------------------------------
(* Interpreter.run stepping through the statements of a Program.  One step *)
(* is one call of eval on a top-level statement, except for a print call,  *)
(* whose loop takes one step per argument (evaluate it, then write it).    *)

SeqsUpTo(S, n) == UNION {[1..k -> S] : k \in 0..n}

Lit1 == Literal(<<"1">>)
LitF == Literal(<<"2", ".", "5", "0">>)
LitS == Literal(<<Quote, "a", Quote>>)
IdX == Identifier(x_)
IdY == Identifier(y_)

\* a node of every class eval has no branch for, and a call of a function
\* other than print
UnsupportedNodes ==
    { Program(<<>>),
      FunctionDef(<<"f">>, <<>>, NoneType, Block(<<>>)),
      Param(x_, NoneType, NoneNode),
      Block(<<>>),
      IfStmt(IdX, Block(<<>>), NoneNode),
      ForStmt(x_, IdY, Block(<<>>)),
      MatchStmt(IdX, <<>>, NoneNode),
      ReturnStmt(Lit1),
      RaiseStmt(<<"E">>, LitS),
      TryStmt(Block(<<>>), <<>>),
      Expression(Lit1, <<"+">>, Lit1),
      CodeBlock(<<>>, Block(<<>>)),
      MacroDef(<<"m">>, <<>>, Block(<<>>)),
      ComptimeDef(<<"c">>, <<>>, Block(<<>>)),
      TypeDef(<<"T">>, NoneType, <<>>, <<>>),
      NoneNode }
OtherCalls == { FunctionCall(<<"f">>, <<Lit1>>) }

PrintCalls == { FunctionCall(print_, a) : a \in SeqsUpTo({IdX, IdY, LitF}, MaxArgs) }

SetupStmts ==
    { VarDecl(x_, int_, NoneNode),
      VarDecl(y_, NoneType, Lit1),
      ConstDecl(x_, NoneType, LitS),
      ConstDecl(y_, float_, LitF) }

MainStmts ==
    { VarDecl(x_, t, NoneNode) : t \in {NoneType, int_, float_, string_, bool_} }
    \cup { VarDecl(x_, t, e) : t \in {NoneType, string_}, e \in {Lit1, IdY} }
    \cup { VarDecl(x_, NoneType, u) : u \in {IfStmt(IdX, Block(<<>>), NoneNode)} }
    \cup { ConstDecl(y_, NoneType, e) : e \in {Lit1, IdX} }
    \cup PrintCalls
    \cup { FunctionCall(print_, <<Lit1, Expression(Lit1, <<"+">>, Lit1), LitS>>) }
    \cup { IdX, LitS }
    \cup UnsupportedNodes
    \cup OtherCalls

TailStmts == { FunctionCall(print_, <<IdX>>), VarDecl(y_, string_, NoneNode) }

Programs ==
    { setup \o <<s>> \o tail :
        setup \in SeqsUpTo(SetupStmts, MaxSetup),
        s \in MainStmts,
        tail \in SeqsUpTo(TailStmts, MaxTail) }

\* source files for handy.py: function definitions in the shapes of the
\* grammar, and programs that pass or fail at each stage
def_empty == <<"d", "e", "f", " ", "f", "(", ")", " ", "{", "}">>
def_params ==
    <<"d", "e", "f", " ", "f", "(", "x", ":", " ", "i", "n", "t", ",", " ", "y", " ", "=",
      " ", "2", ")", " ", "{", " ", "p", "r", "i", "n", "t", "(", "x", ")", " ", "}">>
def_return_type ==
    <<"d", "e", "f", " ", "f", "(", ")", " ", "-", ">", " ", "i", "n", "t", " ", "{", "}">>
def_between ==
    <<"v", "a", "r", " ", "x", " ", "=", " ", "1", Newline,
      "d", "e", "f", " ", "f", "(", ")", " ", "{", "}", Newline,
      "p", "r", "i", "n", "t", "(", "x", ")">>
name_unbound == <<"p", "r", "i", "n", "t", "(", "y", ")">>
const_twice ==
    <<"c", "o", "n", "s", "t", " ", "c", " ", "=", " ", "1", Newline, "c", "o", "n",
      "s", "t", " ", "c", " ", "=", " ", "2">>
print_then_lexical ==
    <<"p", "r", "i", "n", "t", "(", "1", ")", Newline, "v", "a", "r", " ", "x", " ",
      "=", " ", "$">>
print_then_syntax ==
    <<"p", "r", "i", "n", "t", "(", "1", ")", Newline, "v", "a", "r", " ", "=", " ",
      "2">>
print_then_unclosed ==
    <<"p", "r", "i", "n", "t", "(", "1", ")", Newline, "p", "r", "i", "n", "t", "(",
      "x">>
const_twice_unbound ==
    <<"c", "o", "n", "s", "t", " ", "c", " ", "=", " ", "1", Newline, "c", "o", "n",
      "s", "t", " ", "c", " ", "=", " ", "y">>
syntax_then_lexical ==
    <<"v", "a", "r", " ", "=", " ", "2", Newline, "v", "a", "r", " ", "x", " ", "=",
      " ", "$">>

HandySources ==
    { def_empty, def_params, def_return_type, def_between,
      <<"d", "e", "f", " ", "f", "(", ")", " ", "{", " ", "r", "e", "t", "u", "r", "n", " ",
        "1", " ", "}">>,
      <<"v", "a", "r", " ", "x", ":", " ", "i", "n", "t", Newline,
        "p", "r", "i", "n", "t", "(", "x", ",", " ", "2", ".", "5", ")">>,
      <<"p", "r", "i", "n", "t", "(", "x">>,
      <<"v", "a", "r", " ", "x", " ", "=">>,
      <<"v", "a", "r", " ", "x", " ", "=", " ", "$">>,
      <<>>,
      name_unbound, const_twice, print_then_lexical, print_then_syntax,
      print_then_unclosed, const_twice_unbound,
      syntax_then_lexical }

\* either handy.py has read a source file, or run() is called on a program
\* built directly from the node classes
InitInterp ==
    /\ InitCommon
    /\ InitNoParser
    /\ \/ /\ code \in HandySources
          /\ pos = 0 /\ tokens = <<>> /\ line = 1 /\ line_start = 0
          /\ kind = "None" /\ tok_status = "idle" /\ tok_error = NoErr /\ calls = 0
          /\ program = <<>>
          /\ status = "loaded"
       \/ /\ InitNoTokenizer
          /\ program \in Programs
          /\ status = "running"

CurState == EvalState(env_vars, env_consts, output)

\* (a run that swallows the exception and goes on with the next statement)
Commit_keep_going(r, next_pc, next_argi) ==
    /\ env_vars' = r.st.vars
    /\ env_consts' = r.st.consts
    /\ output' = r.st.out
    /\ pc' = pc + 1
    /\ argi' = 0
    /\ UNCHANGED <<status, error>>
    /\ UNCHANGED <<program, last_call, tok_vars, parse_vars>>

\* what a call of eval on a top-level statement leaves behind: on an
\* exception run() stops and the exception leaves it
Commit(r, next_pc, next_argi) ==
    /\ env_vars' = r.st.vars
    /\ env_consts' = r.st.consts
    /\ output' = r.st.out
    /\ IF r.exc # NoErr
       THEN /\ status' = "failed"
            /\ error' = r.exc
            /\ UNCHANGED <<pc, argi>>
       ELSE /\ pc' = next_pc
            /\ argi' = next_argi
            /\ UNCHANGED <<status, error>>
    /\ UNCHANGED <<program, last_call, tok_vars, parse_vars>>

AtStmt == status = "running" /\ pc <= Len(program)
IsPrint(node) == node.kind = "FunctionCall" /\ node.name = print_

EvalVarDecl ==
    /\ AtStmt
    /\ program[pc].kind = "VarDecl"
    /\ Commit(eval(program[pc], CurState), pc + 1, 0)

\* (a declaration that checks for a conflict before it evaluates the initializer)
EvalConstDecl_conflict_first ==
    /\ AtStmt
    /\ program[pc].kind = "ConstDecl"
    /\ Commit(IF program[pc].name \in DOMAIN env_consts
              THEN Result(CurState, set_const(env_consts, program[pc].name, PyNone).exc, PyNone)
              ELSE eval(program[pc], CurState),
              pc + 1, 0)

EvalConstDecl ==
    /\ AtStmt
    /\ program[pc].kind = "ConstDecl"
    /\ Commit(eval(program[pc], CurState), pc + 1, 0)

\* one iteration of the loop over node.args of a print call
EvalPrintArg ==
    /\ AtStmt
    /\ IsPrint(program[pc])
    /\ argi < Len(program[pc].args)
    /\ LET args == program[pc].args
           last == argi + 1 = Len(args)
       IN  Commit(print_iteration(next_arg(args, argi), CurState),
                  IF last THEN pc + 1 ELSE pc,
                  IF last THEN 0 ELSE argi + 1)

\* print() with no argument: the loop body never runs
EvalPrintNoArgs ==
    /\ AtStmt
    /\ IsPrint(program[pc])
    /\ Len(program[pc].args) = 0
    /\ Commit(eval(program[pc], CurState), pc + 1, 0)

\* a Literal or an Identifier as a statement
EvalExpressionStmt ==
    /\ AtStmt
    /\ program[pc].kind \in {"Literal", "Identifier"}
    /\ Commit(eval(program[pc], CurState), pc + 1, 0)

\* any other node: eval has no semantics for it
EvalUnsupported ==
    /\ AtStmt
    /\ program[pc].kind \notin {"VarDecl", "ConstDecl", "Literal", "Identifier"}
    /\ ~IsPrint(program[pc])
    /\ Commit(eval(program[pc], CurState), pc + 1, 0)

\* (a runner that evaluates the statements parsed before a syntax error)
TokenizeAndParse_runs_prefix ==
    /\ status = "loaded"
    /\ \E t \in {tokenize(code)} : \E r \in {parse_loop(t.tokens, 0, <<>>)} :
           /\ pos' = t.pos
           /\ tokens' = t.tokens
           /\ line' = t.line
           /\ line_start' = t.line_start
           /\ kind' = t.kind
           /\ tok_status' = t.status
           /\ tok_error' = t.error
           /\ calls' = calls + 1
           /\ IF t.status = "failed"
              THEN status' = "failed" /\ error' = t.error /\ program' = program
              ELSE status' = "running" /\ error' = error /\ program' = r.items
    /\ UNCHANGED <<code, env_vars, env_consts, last_call, pc, argi, output, parse_vars>>

\* handy.py: tokens = tokenize(code); ast = Parser(tokens, path).parse();
\* then run(ast) starts on a new Environment, unless one of the two raised
TokenizeAndParse ==
    /\ status = "loaded"
    /\ \E t \in {tokenize(code)} : \E r \in {parse(t.tokens)} :
           /\ pos' = t.pos
           /\ tokens' = t.tokens
           /\ line' = t.line
           /\ line_start' = t.line_start
           /\ kind' = t.kind
           /\ tok_status' = t.status
           /\ tok_error' = t.error
           /\ calls' = calls + 1
           /\ IF t.status = "failed"
              THEN status' = "failed" /\ error' = t.error /\ program' = program
              ELSE IF r.exc # NoErr
              THEN status' = "failed" /\ error' = r.exc /\ program' = program
              ELSE status' = "running" /\ error' = error /\ program' = r.node.statements
    /\ UNCHANGED <<code, env_vars, env_consts, last_call, pc, argi, output, parse_vars>>

\* the loop of run() is exhausted
RunReturn ==
    /\ status = "running"
    /\ pc > Len(program)
    /\ status' = "done"
    /\ UNCHANGED <<env_vars, env_consts, last_call, program, pc, argi, output, error, tok_vars, parse_vars>>

NextInterp ==
    \/ TokenizeAndParse
    \/ EvalVarDecl
    \/ EvalConstDecl
    \/ EvalPrintArg
    \/ EvalPrintNoArgs
    \/ EvalExpressionStmt
    \/ EvalUnsupported
    \/ RunReturn

SpecInterp == InitInterp /\ [][NextInterp]_vars

----------------------------------------------------------------------------
(* tokenize stepping through a source text: one step is one pass through   *)
(* the body of its while loop.  The texts are the concatenations of up to  *)
(* MaxFrags fragments, and every reserved word and a few literals whole.   *)

MaxFrags == 3
\* the number of calls of tokenize in one behaviour
MaxCalls == 2

Fragments ==
    { True_, null_, <<"x">>, <<"1">>, <<".">>, <<Quote>>, <<Backslash>>,
      <<"=">>, <<"-">>, <<">">>, <<Newline>>, <<" ">> }

RECURSIVE Flatten(_)
Flatten(ss) == IF ss = <<>> THEN <<>> ELSE Head(ss) \o Flatten(Tail(ss))

FragmentTexts == { Flatten(fs) : fs \in SeqsUpTo(Fragments, MaxFrags) }

\* texts of several lines: comments and blanks only; an invalid character
\* on a later line, after plain lines, after a block comment and after a
\* string that span a newline; tokens on a later line
only_comments == <<"#", " ", "c", Newline, Quote, Quote, Quote, "a", Quote, Quote, Quote, "\t", " ">>
bad_on_line_3 == <<"x", Newline, Newline, " ", "$", " ", "$">>
bad_after_block_comment ==
    <<Quote, Quote, Quote, "a", Newline, "b", Quote, Quote, Quote, " ", "$">>
bad_after_string == <<Quote, "a", Newline, "b", Quote, " ", "$">>
word_after_string == <<Quote, "a", Newline, "b", Quote, "x">>
words_on_line_2 == <<"x", " ", "#", "c", Newline, " ", " ", "y", "1", " ", "=", "2">>
word_after_long_comment ==
    <<"x", " ", Quote, Quote, Quote, "a", Newline, "b", Newline, Quote, Quote, Quote,
      "y">>

MultiLineTexts ==
    { only_comments, bad_on_line_3, bad_after_block_comment, bad_after_string,
      word_after_string, words_on_line_2,
      word_after_long_comment }

WholeTexts ==
    keywords
    \cup { <<"4", "2">>, <<"3", ".", "1", "4">>, <<"0">>, <<"1", ".", "0">>,
           <<Quote, "h", "i", Quote>>,
           <<Quote, "h", " ", Backslash, Quote, "w", Backslash, Quote, Quote>>,
           <<Quote, Backslash, Backslash, Quote>>,
           <<Quote, "a", Newline, "b", Quote>>,
           False_,
           <<"v", "a", "r", "i", "a", "b", "l", "e">>, <<"_", "p">>, <<"v", "a", "r", "1">>,
           <<"T", "r", "u", "e", "_">>, <<"n", "u", "l", "l", "1">>, <<"i", "f", "x">>,
           <<"!", "=">>, <<">", "=">>, <<"<", "=">>, <<"/", "/">>, <<"!">>, <<"$">>,
           <<"@", ":", ",", ";", "(", ")", "{", "}", "[", "]">>,
           <<"+", "*", "/", "%", "<", "\t">>,
           <<"x", " ", "#", " ", "c", Newline, "y">>,
           <<Quote, Quote, Quote, "a", Newline, "b", Quote, Quote, Quote, "x">> }
    \cup MultiLineTexts

SourceTexts == FragmentTexts \cup WholeTexts

\* the texts of the calls after the first
RecallTexts == MultiLineTexts

\* (a tokenizer whose line counters are module-level: a call goes on from
\* the line and the column origin the call before it, state s, stopped at)
tokenize_entry_keeps_line(s) == [TokStart EXCEPT !.line = s.line, !.line_start = s.line_start]
\* the locals of tokenize as a call begins, whatever the call before it,
\* state s, left behind: pos = 0, tokens = [], line = 1, line_start = 0
tokenize_entry(s) == TokStart

InitTok ==
    /\ InitCommon
    /\ InitNoParser
    /\ program = <<>>
    /\ status = "idle"
    /\ code \in SourceTexts
    /\ pos = TokStart.pos
    /\ tokens = TokStart.tokens
    /\ line = TokStart.line
    /\ line_start = TokStart.line_start
    /\ kind = TokStart.kind
    /\ tok_status = TokStart.status
    /\ tok_error = TokStart.error
    /\ calls = 1

CurTok == TokState(pos, tokens, line, line_start, kind, tok_status, tok_error)

TokCommit(s) ==
    /\ pos' = s.pos
    /\ tokens' = s.tokens
    /\ line' = s.line
    /\ line_start' = s.line_start
    /\ kind' = s.kind
    /\ tok_status' = s.status
    /\ tok_error' = s.error
    /\ UNCHANGED <<code, calls, env_vars, env_consts, last_call, interp_vars, parse_vars>>

Scanning == tok_status = "scanning"
NextGroup == get_token(code, pos).lastgroup

\* a match that appends a token
ScanToken ==
    /\ Scanning
    /\ NextGroup \in EmittedKinds \cup {"IDENT"}
    /\ TokCommit(tokenize_step(code, CurTok))

\* a newline: the line counter and the column origin move
ScanNewline ==
    /\ Scanning
    /\ NextGroup = "NEWLINE"
    /\ TokCommit(tokenize_step(code, CurTok))

\* a comment, a block comment or blanks: nothing is appended
ScanSkipped ==
    /\ Scanning
    /\ NextGroup \in {"COMMENT", "BLOCK_COMMENT", "SKIP"}
    /\ TokCommit(tokenize_step(code, CurTok))

\* no pattern but MISMATCH matches: RuntimeError
ScanMismatch ==
    /\ Scanning
    /\ NextGroup = "MISMATCH"
    /\ TokCommit(tokenize_step(code, CurTok))

\* mo is None: the loop ends and tokens is returned
TokenizeReturn ==
    /\ Scanning
    /\ NextGroup = "None"
    /\ TokCommit(tokenize_step(code, CurTok))

\* tokenize has returned or raised, and is called again, on the same text
\* or on another one
TokenizeAgain ==
    /\ tok_status \in {"done", "failed"}
    /\ calls < MaxCalls
    /\ code' \in RecallTexts
    /\ calls' = calls + 1
    /\ LET s == tokenize_entry(CurTok) IN
        /\ pos' = s.pos
        /\ tokens' = s.tokens
        /\ line' = s.line
        /\ line_start' = s.line_start
        /\ kind' = s.kind
        /\ tok_status' = s.status
        /\ tok_error' = s.error
    /\ UNCHANGED <<env_vars, env_consts, last_call, interp_vars, parse_vars>>

NextTok ==
    \/ ScanToken
    \/ ScanNewline
    \/ ScanSkipped
    \/ ScanMismatch
    \/ TokenizeReturn
    \/ TokenizeAgain

SpecTok == InitTok /\ [][NextTok]_vars

----------------------------------------------------------------------------
(* Parser(tokens, filename).parse() stepping through the token list that   *)
(* tokenize returned for a source text: one step is one pass through the   *)
(* loop of parse, that is one call of parse_statement.  The texts are up   *)
(* to MaxWords words separated by blanks, and sources written whole.       *)

MaxWords == 3

ParseWords ==
    { <<"v", "a", "r">>, <<"c", "o", "n", "s", "t">>, print_, <<"r", "e", "t", "u", "r", "n">>,
      <<"x">>, <<"1">>, <<"=">>, <<"(">>, <<")">>, <<Newline>> }

\* the words ws with one blank between two of them
RECURSIVE JoinWords(_)
JoinWords(ws) ==
    IF ws = <<>> THEN <<>>
    ELSE IF Len(ws) = 1 THEN ws[1]
    ELSE ws[1] \o <<" ">> \o JoinWords(Tail(ws))

WordTexts == { JoinWords(ws) : ws \in SeqsUpTo(ParseWords, MaxWords) }

stub_if == <<"i", "f", " ", "x">>
stub_for == <<"f", "o", "r", " ", "x">>
stub_match == <<"m", "a", "t", "c", "h", " ", "x">>
stub_raise == <<"r", "a", "i", "s", "e", " ", "x">>
stub_in_body ==
    <<"d", "e", "f", " ", "f", "(", ")", " ", "{", " ", "r", "e", "t", "u", "r", "n",
      " ", "1", " ", "}">>
stub_in_inner_body ==
    <<"d", "e", "f", " ", "f", "(", ")", " ", "{", " ", "d", "e", "f", " ", "g", "(",
      ")", " ", "{", " ", "i", "f", " ", "x", " ", "}", " ", "}">>
stub_after_statement ==
    <<"d", "e", "f", " ", "f", "(", ")", " ", "{", Newline, " ", "v", "a", "r", " ",
      "y", Newline, " ", "r", "a", "i", "s", "e", " ", "x", Newline, "}">>
var_no_name == <<"v", "a", "r", " ", "=", " ", "1", "0">>
var_number_name ==
    <<"v", "a", "r", " ", "1", Newline, "p", "r", "i", "n", "t", "(", "x", ")">>
var_typed ==
    <<"v", "a", "r", " ", "x", ":", " ", "i", "n", "t", " ", "=", " ", "1", Newline,
      "c", "o", "n", "s", "t", " ", "c", " ", "=", " ", "2", Newline, "p", "r", "i",
      "n", "t", "(", "x", ",", " ", "c", ")">>
var_type_if == <<"v", "a", "r", " ", "x", ":", " ", "i", "f">>
unclosed_print == <<"p", "r", "i", "n", "t", "(", "x">>
unclosed_params == <<"d", "e", "f", " ", "f", "(">>
unclosed_body == <<"d", "e", "f", " ", "f", "(", ")", " ", "{">>
const_no_value == <<"c", "o", "n", "s", "t", " ", "c", ":", " ", "i", "n", "t">>
print_no_comma == <<"p", "r", "i", "n", "t", "(", "x", " ", "y", ")">>
params_no_comma == <<"d", "e", "f", " ", "f", "(", "a", " ", "b", ")", " ", "{", "}">>
print_trailing_comma == <<"p", "r", "i", "n", "t", "(", "x", ",", ")">>
print_then_var ==
    <<"p", "r", "i", "n", "t", "(", "x", Newline, "v", "a", "r", " ", "y", " ", "=",
      " ", "1">>
params_then_brace == <<"d", "e", "f", " ", "f", "(", "a", " ", "{", "}">>
body_unclosed_after_var ==
    <<"d", "e", "f", " ", "f", "(", ")", " ", "{", " ", "v", "a", "r", " ", "x">>
expr_true == <<"p", "r", "i", "n", "t", "(", "T", "r", "u", "e", ")">>
expr_null == <<"n", "u", "l", "l">>
expr_op == <<"v", "a", "r", " ", "x", " ", "=", " ", "+", " ", "1">>
expr_keyword == <<"v", "a", "r", " ", "x", " ", "=", " ", "i", "n", "t">>
expr_string == <<"v", "a", "r", " ", "x", " ", "=", " ", Quote, "s", Quote>>
expr_ident == <<"v", "a", "r", " ", "x", " ", "=", " ", "y">>
expr_number == <<"c", "o", "n", "s", "t", " ", "c", " ", "=", " ", "1", ".", "5">>
expr_rparen == <<"v", "a", "r", " ", "x", " ", "=", " ", ")">>

WholeSources ==
    { def_empty, def_params, def_return_type, def_between, only_comments,
      stub_if, stub_for, stub_match, stub_raise,
      stub_in_body, stub_in_inner_body, stub_after_statement, var_no_name,
      var_number_name, var_typed, var_type_if, unclosed_print,
      unclosed_params, unclosed_body, const_no_value,
      print_no_comma, params_no_comma, print_trailing_comma, print_then_var,
      params_then_brace, body_unclosed_after_var,
      expr_true, expr_null, expr_op, expr_keyword,
      expr_string, expr_ident, expr_number, expr_rparen }

ParseTexts == WordTexts \cup WholeSources

\* tokens = tokenize(code); parser = Parser(tokens, filename): self.pos = 0
InitParse ==
    /\ InitCommon
    /\ program = <<>>
    /\ status = "idle"
    /\ code \in ParseTexts
    /\ \E t \in {tokenize(code)} :
          /\ t.status = "done"
          /\ pos = t.pos
          /\ tokens = t.tokens
          /\ line = t.line
          /\ line_start = t.line_start
          /\ kind = t.kind
          /\ tok_status = t.status
          /\ tok_error = t.error
    /\ calls = 1
    /\ ppos = 0
    /\ stmts = <<>>
    /\ parse_status = "parsing"
    /\ parse_error = NoErr

Parsing == parse_status = "parsing"

\* statements.append(self.parse_statement())
ParseStatement ==
    /\ Parsing
    /\ ~at_end(tokens, ppos)
    /\ \E s \in {parse_statement(tokens, ppos)} :
          /\ s.exc = NoErr
          /\ ppos' = s.pos
          /\ stmts' = Append(stmts, s.node)
    /\ UNCHANGED <<parse_status, parse_error>>
    /\ UNCHANGED <<env_vars, env_consts, last_call, interp_vars, tok_vars>>

\* parse_statement raises: the except clause of parse, and the exception
\* leaves parse
ParseRaises ==
    /\ Parsing
    /\ ~at_end(tokens, ppos)
    /\ \E s \in {parse_statement(tokens, ppos)} :
          /\ s.exc # NoErr
          /\ ppos' = s.pos
          /\ parse_status' = "raised"
          /\ parse_error' = rewrap(tokens, s.exc, s.pos, "Parsing error: {}")
    /\ UNCHANGED stmts
    /\ UNCHANGED <<env_vars, env_consts, last_call, interp_vars, tok_vars>>

\* peek() gives the end sentinel: return Program(statements)
ParseReturn ==
    /\ Parsing
    /\ at_end(tokens, ppos)
    /\ parse_status' = "returned"
    /\ UNCHANGED <<ppos, stmts, parse_error>>
    /\ UNCHANGED <<env_vars, env_consts, last_call, interp_vars, tok_vars>>

NextParse ==
    \/ ParseStatement
    \/ ParseRaises
    \/ ParseReturn

SpecParse == InitParse /\ [][NextParse]_vars

----------------------------------------------------------------------------
(* C1: a name bound in consts keeps the value of its first set_const for   *)
(* ever; a set_const on a name already in consts raises the                *)
(* definition-conflict error naming that name and changes neither table.   *)

C1_ConstWriteOnce ==
    [][ /\ \A n \in DOMAIN env_consts :
              n \in DOMAIN env_consts' /\ env_consts'[n] = env_consts[n]
        /\ (last_call'.op = "set_const" /\ last_call'.name \in DOMAIN env_consts)
              => /\ last_call'.exc.exc = "ValueError"
                 /\ last_call'.exc.fmt = "Constant '{}' already defined"
                 /\ last_call'.exc.arg = last_call'.name
                 /\ env_consts' = env_consts
                 /\ env_vars' = env_vars
        /\ (last_call'.op = "set_const" /\ last_call'.name \notin DOMAIN env_consts)
              => /\ last_call'.exc = NoErr
                 /\ env_consts'[last_call'.name] = last_call'.value
      ]_vars

\* a second set_const on a bound constant, with another value, was refused
C1_Witness ==
    /\ last_call.op = "set_const"
    /\ last_call.exc # NoErr
    /\ last_call.name \in DOMAIN env_consts
    /\ env_consts[last_call.name] # last_call.value

(* C2: get_var reads the variables table before the constants table: a     *)
(* name bound in both reads as its variables value; set_var on any name    *)
(* succeeds and the last write wins.                                       *)

C2_VarsShadowConsts ==
    [][ /\ (last_call'.op = "get_var" /\ last_call'.name \in DOMAIN env_vars)
              => /\ last_call'.exc = NoErr
                 /\ last_call'.val = env_vars[last_call'.name]
        /\ (last_call'.op = "get_var" /\ last_call'.name \notin DOMAIN env_vars
                /\ last_call'.name \in DOMAIN env_consts)
              => /\ last_call'.exc = NoErr
                 /\ last_call'.val = env_consts[last_call'.name]
        /\ last_call'.op = "set_var"
              => /\ last_call'.exc = NoErr
                 /\ DOMAIN env_vars' = DOMAIN env_vars \cup {last_call'.name}
                 /\ env_vars'[last_call'.name] = last_call'.value
                 /\ \A n \in DOMAIN env_vars :
                        n # last_call'.name => env_vars'[n] = env_vars[n]
                 /\ env_consts' = env_consts
      ]_vars

\* a name bound in both tables to different values was read
C2_Witness ==
    /\ last_call.op = "get_var"
    /\ last_call.name \in DOMAIN env_vars
    /\ last_call.name \in DOMAIN env_consts
    /\ env_vars[last_call.name] # env_consts[last_call.name]
    /\ last_call.val = env_vars[last_call.name]

(* C3: get_var on a name bound in neither table raises the                 *)
(* name-resolution error naming that identifier; both tables are as they   *)
(* were.                                                                   *)

C3_UnboundLookupFails ==
    [][ (last_call'.op = "get_var" /\ last_call'.name \notin DOMAIN env_vars
            /\ last_call'.name \notin DOMAIN env_consts)
          => /\ last_call'.exc.exc = "NameError"
             /\ last_call'.exc.fmt = "Variable '{}' not defined"
             /\ last_call'.exc.arg = last_call'.name
             /\ env_vars' = env_vars
             /\ env_consts' = env_consts
      ]_vars

\* a failed lookup while the other name is bound in both tables
C3_Witness ==
    /\ last_call.op = "get_var"
    /\ last_call.exc # NoErr
    /\ last_call.exc.arg = last_call.name
    /\ DOMAIN env_vars # {}
    /\ DOMAIN env_consts # {}

----------------------------------------------------------------------------
(* C4: a VarDecl without initializer binds the zero value of its declared  *)
(* type (int -> 0, float -> 0.0, string -> "") into variables; with any    *)
(* other declared type, or none, evaluation fails and no binding is        *)
(* created or changed.                                                     *)

ZeroValueTypes == {int_, float_, string_}
ZeroValue(type_) ==
    CASE type_ = int_ -> PyInt(0)
      [] type_ = float_ -> PyFloat(0, <<>>)
      [] type_ = string_ -> PyStr(<<>>)

C4_DefaultValueOrError ==
    [][ (AtStmt /\ program[pc].kind = "VarDecl" /\ program[pc].value = NoneNode)
          => LET d == program[pc] IN
             IF d.type_ \in ZeroValueTypes
             THEN /\ status' = "running"
                  /\ pc' = pc + 1
                  /\ DOMAIN env_vars' = DOMAIN env_vars \cup {d.name}
                  /\ env_vars'[d.name] = ZeroValue(d.type_)
                  /\ \A n \in DOMAIN env_vars : n # d.name => env_vars'[n] = env_vars[n]
                  /\ env_consts' = env_consts
             ELSE /\ status' = "failed"
                  /\ error'.exc = "ValueError"
                  /\ env_vars' = env_vars
                  /\ env_consts' = env_consts
      ]_vars

\* `var x: bool` has failed while x keeps the 0 an earlier `var x: int` gave it
C4_Witness ==
    /\ status = "failed"
    /\ pc <= Len(program)
    /\ program[pc] = VarDecl(x_, bool_, NoneNode)
    /\ \E k \in 1..(pc - 1) : program[k] = VarDecl(x_, int_, NoneNode)
    /\ x_ \in DOMAIN env_vars
    /\ env_vars[x_] = PyInt(0)

(* C5: run evaluates the top-level statements in program order with no     *)
(* rollback: when statement k fails no later statement is evaluated, and   *)
(* the bindings and the output produced before it are exactly as they      *)
(* were.                                                                   *)

\* the statement (or print argument) the next step evaluates raises
NextEvalRaises ==
    /\ AtStmt
    /\ IF IsPrint(program[pc]) /\ Len(program[pc].args) > 0
       THEN eval(program[pc].args[argi + 1], CurState).exc # NoErr
       ELSE eval(program[pc], CurState).exc # NoErr

C5_InOrderNoRollback ==
    [][ /\ status # "failed"
        /\ status # "done"
        /\ status = "running" =>
            /\ program' = program
            /\ pc' \in {pc, pc + 1}
            /\ (pc' = pc /\ status' = "running")
                  => (IsPrint(program[pc]) /\ argi' = argi + 1)
            /\ NextEvalRaises
                 => /\ status' = "failed"
                    /\ pc' = pc
                    /\ env_vars' = env_vars
                    /\ env_consts' = env_consts
                    /\ output' = output
            /\ status' = "failed" => NextEvalRaises
            /\ status' = "done" => (pc = Len(program) + 1 /\ pc' = pc)
        /\ Len(output') >= Len(output)
        /\ SubSeq(output', 1, Len(output)) = output
      ]_vars

\* a statement failed with bindings and output before it and statements after it
C5_Witness ==
    /\ status = "failed"
    /\ pc < Len(program)
    /\ pc > 1
    /\ DOMAIN env_vars # {}
    /\ DOMAIN env_consts # {}
    /\ output # <<>>

(* C6: every node of a kind other than VarDecl, ConstDecl, a FunctionCall  *)
(* named print, Literal and Identifier that reaches eval fails with the    *)
(* unsupported-construct error (NotImplementedError) naming the kind of    *)
(* that node, and changes neither the environment nor the output; and a    *)
(* program containing a syntactically valid function definition parses     *)
(* successfully, its evaluation failing at that statement, never going     *)
(* past it.                                                                *)

\* the node the next step of run() hands to eval: the statement, its
\* initializer, or the next argument of a print call
NodeAtEval ==
    LET s == program[pc] IN
    IF IsPrint(s) THEN (IF argi < Len(s.args) THEN s.args[argi + 1] ELSE s)
    ELSE IF s.kind \in {"VarDecl", "ConstDecl"} /\ s.value # NoneNode THEN s.value
    ELSE s
IsOtherKind(node) ==
    /\ node.kind \notin {"VarDecl", "ConstDecl", "Literal", "Identifier"}
    /\ ~IsPrint(node)
\* source files holding a function definition in the shape of the grammar:
\* 'def' IDENT '(' ParamList ')' ('->' TYPE)? Block
DefSources == {def_empty, def_params, def_return_type, def_between}
ParseFailed == status = "failed" /\ error.exc \in {"RuntimeError", "SyntaxError", "IndexError"}

C6_UnsupportedFailsNamingKind ==
    /\ [](code \in DefSources /\ status # "loaded"
            => /\ ~ParseFailed
               /\ \E i \in 1..Len(program) : program[i].kind = "FunctionDef"
               /\ \A i \in 1..Len(program) : program[i].kind = "FunctionDef" => pc <= i
               /\ status # "done")
    /\ [][ (AtStmt /\ IsOtherKind(NodeAtEval))
             => /\ status' = "failed"
                /\ error'.exc = "NotImplementedError"
                /\ error'.arg = TypeOf(NodeAtEval)
                /\ env_vars' = env_vars
                /\ env_consts' = env_consts
                /\ output' = output
         ]_vars

(* C7: a print call evaluates and writes its arguments strictly left to    *)
(* right, each one written before the next is evaluated: the output is     *)
(* the argument values in argument order, and when argument k fails        *)
(* exactly the values of arguments 1..k-1 have been written.               *)

C7_PrintLeftToRight ==
    [][ (AtStmt /\ IsPrint(program[pc]) /\ Len(program[pc].args) > 0)
          => LET args == program[pc].args
                 r == eval(args[argi + 1], CurState)
             IN  /\ argi < Len(args)
                 /\ Len(output) >= argi
                 /\ \A i \in 1..argi :
                        output[Len(output) - argi + i] = str(eval(args[i], CurState).val)
                 /\ IF r.exc # NoErr
                    THEN /\ status' = "failed"
                         /\ error' = r.exc
                         /\ output' = output
                         /\ argi' = argi
                    ELSE /\ status' = "running"
                         /\ output' = Append(output, str(r.val))
                         /\ IF argi + 1 = Len(args)
                            THEN pc' = pc + 1 /\ argi' = 0
                            ELSE pc' = pc /\ argi' = argi + 1
                 /\ env_vars' = env_vars
                 /\ env_consts' = env_consts
      ]_vars

\* the second argument of a print failed after the first was written
C7_Witness ==
    /\ status = "failed"
    /\ pc <= Len(program)
    /\ IsPrint(program[pc])
    /\ argi >= 1
    /\ Len(program[pc].args) > argi
    /\ output # <<>>
    /\ output[Len(output)] = str(eval(program[pc].args[argi], CurState).val)

----------------------------------------------------------------------------
(* The literal forms and the identifiers, described by their shape alone   *)

\* an integer: one or more digits
IsIntegerText(t) == Len(t) > 0 /\ \A i \in 1..Len(t) : t[i] \in Digits
\* a decimal: an integer, a dot, an integer
IsDecimalText(t) ==
    \E d \in 2..(Len(t) - 1) :
        /\ t[d] = "."
        /\ IsIntegerText(SubSeq(t, 1, d - 1))
        /\ IsIntegerText(SubSeq(t, d + 1, Len(t)))
\* the inside of a string: plain characters, and escapes (a backslash and
\* the character it escapes, a quote or a backslash for instance)
RECURSIVE IsEscapedBody(_)
IsEscapedBody(b) ==
    IF b = <<>> THEN TRUE
    ELSE IF b[1] = Backslash
    THEN Len(b) >= 2 /\ b[2] # Newline /\ IsEscapedBody(SubSeq(b, 3, Len(b)))
    ELSE b[1] # Quote /\ IsEscapedBody(Tail(b))
IsStringText(t) ==
    /\ Len(t) >= 2
    /\ t[1] = Quote
    /\ t[Len(t)] = Quote
    /\ IsEscapedBody(SubSeq(t, 2, Len(t) - 1))
\* the token kind of a text that is one literal, "None" for any other text
LiteralKind(t) ==
    IF IsIntegerText(t) \/ IsDecimalText(t) THEN "NUMBER"
    ELSE IF IsStringText(t) THEN "STRING"
    ELSE IF t \in {True_, False_} THEN "BOOL"
    ELSE IF t = null_ THEN "NULL"
    ELSE "None"
\* a letter or underscore, then letters, digits and underscores
IsIdentifierText(t) ==
    /\ Len(t) > 0
    /\ t[1] \in IdentStart
    /\ \A i \in 2..Len(t) : t[i] \in WordChars
\* tokenize has returned exactly one token, of kind k, whose text is the input
OneToken(k) ==
    /\ Len(tokens) = 1
    /\ tokens[1].type = k
    /\ tokens[1].value = code

(* C8: when the input is exactly one literal (an integer or decimal        *)
(* number, a double-quoted string possibly with escaped quotes, True,      *)
(* False or null), tokenize does not fail and returns exactly one token,   *)
(* of kind NUMBER, STRING, BOOL or NULL respectively, whose text is the    *)
(* input verbatim, quotes included.                                        *)

C8_OneLiteralOneToken ==
    LiteralKind(code) # "None"
        => /\ tok_status # "failed"
           /\ tok_status = "done" => OneToken(LiteralKind(code))

\* a string with escaped quotes has been tokenized
C8_Witness ==
    /\ tok_status = "done"
    /\ code = <<Quote, "h", " ", Backslash, Quote, "w", Backslash, Quote, Quote>>
    /\ OneToken("STRING")

(* C9 as stated: every word of keywords yields exactly one KEYWORD token,  *)
(* every other valid identifier exactly one IDENT token.                   *)

C9_EveryKeywordIsKEYWORD ==
    (tok_status = "done" /\ IsIdentifierText(code))
        => OneToken(IF code \in keywords THEN "KEYWORD" ELSE "IDENT")

(* C9, amended: every word of keywords other than True, False and null     *)
(* yields exactly one KEYWORD token; True and False yield one BOOL token   *)
(* and null one NULL token; every valid identifier outside keywords yields *)
(* exactly one IDENT token.  None of these inputs fails.                   *)

C9_KeywordsExceptLiterals ==
    IsIdentifierText(code)
        => /\ tok_status # "failed"
           /\ tok_status = "done"
                => OneToken(IF code \in {True_, False_} THEN "BOOL"
                            ELSE IF code = null_ THEN "NULL"
                            ELSE IF code \in keywords THEN "KEYWORD"
                            ELSE "IDENT")

\* a reserved word other than the three literals has been tokenized
C9_Witness ==
    /\ tok_status = "done"
    /\ code \in keywords \ {True_, False_, null_}
    /\ OneToken("KEYWORD")

(* C10: at every cursor position the pattern taken is the first one, in    *)
(* the order of token_specification, that matches there, whatever the      *)
(* lengths of the matches: no earlier pattern matches at the cursor, and   *)
(* the cursor moves to the end of that pattern's match.  So True, False    *)
(* and null are BOOL and NULL, never IDENT; the text == is two ASSIGN      *)
(* tokens and the text -> is two OP tokens.                                *)

PatternIndex(n) == CHOOSE i \in 1..Len(token_specification) : token_specification[i] = n
TokenKinds == [i \in 1..Len(tokens) |-> tokens[i].type]
TokenTexts == [i \in 1..Len(tokens) |-> tokens[i].value]

C10_FirstPatternWins ==
    /\ [][ (Scanning /\ pos < Len(code))
             => /\ kind' \in {token_specification[i] : i \in 1..Len(token_specification)}
                /\ Match(kind', code, pos) # NoMatch
                /\ \A j \in 1..(PatternIndex(kind') - 1) :
                       Match(token_specification[j], code, pos) = NoMatch
                /\ tok_status' = "scanning" => pos' = Match(kind', code, pos)
         ]_vars
    /\ [](tok_status = "done" =>
            /\ code \in {True_, False_} => TokenKinds = <<"BOOL">>
            /\ code = null_ => TokenKinds = <<"NULL">>
            /\ code = <<"=", "=">>
                 => TokenKinds = <<"ASSIGN", "ASSIGN">> /\ TokenTexts = << <<"=">>, <<"=">> >>
            /\ code = <<"-", ">">>
                 => TokenKinds = <<"OP", "OP">> /\ TokenTexts = << <<"-">>, <<">">> >>)

\* the text -> has been tokenized, as two tokens
C10_Witness ==
    /\ tok_status = "done"
    /\ code = <<"-", ">">>
    /\ Len(tokens) = 2
    /\ tokens[1].type = "OP"

----------------------------------------------------------------------------
(* C11: every token of the result has a kind of the fixed enumeration;     *)
(* blanks, newlines, line comments and block comments are consumed and     *)
(* never appear as tokens, and an input made only of them is tokenized     *)
(* without error into the empty sequence.                                  *)

TokenKindEnumeration ==
    {"NUMBER", "STRING", "BOOL", "NULL", "IDENT", "KEYWORD", "AT", "ASSIGN", "OP",
     "ARROW", "COLON", "COMMA", "SEMICOLON", "LPAREN", "RPAREN", "LBRACE", "RBRACE",
     "LBRACKET", "RBRACKET"}

\* from offset p on, the text c is made of blanks, newlines, line comments
\* (# to the end of the line) and block comments (""" to the next """) only
RECURSIVE OnlyTrivia(_, _)
OnlyTrivia(c, p) ==
    IF p >= Len(c) THEN TRUE
    ELSE IF Ch(c, p) \in {" ", "\t", Newline} THEN OnlyTrivia(c, p + 1)
    ELSE IF Ch(c, p) = "#"
    THEN OnlyTrivia(c, MinOf({q \in (p + 1)..Len(c) : q = Len(c) \/ Ch(c, q) = Newline}))
    ELSE LET q3 == <<Quote, Quote, Quote>>
             closers == {q \in (p + 3)..(Len(c) - 3) : At(c, q, q3)}
         IN  At(c, p, q3) /\ closers # {} /\ OnlyTrivia(c, MinOf(closers) + 3)

\* the text t is a run of blanks, a newline, a line comment or a block comment
IsTriviaText(t) ==
    \/ t # <<>> /\ \A i \in 1..Len(t) : t[i] \in {" ", "\t"}
    \/ t = <<Newline>>
    \/ t # <<>> /\ t[1] = "#"
    \/ At(t, 0, <<Quote, Quote, Quote>>)

C11_OnlyEnumeratedKinds ==
    /\ \A i \in 1..Len(tokens) :
          /\ tokens[i].type \in TokenKindEnumeration
          /\ ~IsTriviaText(tokens[i].value)
    /\ OnlyTrivia(code, 0) => tok_status # "failed" /\ tokens = <<>>

\* a text of a line comment, a newline, a block comment and blanks has been
\* tokenized into nothing
C11_Witness ==
    /\ tok_status = "done"
    /\ code = only_comments
    /\ pos = Len(code)
    /\ tokens = <<>>

----------------------------------------------------------------------------
(* Where an offset of a text lies: its 1-based line (one more than the     *)
(* number of newline characters before it) and its 1-based column (one     *)
(* more than its distance from the start of that line).                    *)

LineStartOf(c, p) ==
    LET breaks == {j \in 0..(p - 1) : Ch(c, j) = Newline}
    IN  IF breaks = {} THEN 0 ELSE (CHOOSE j \in breaks : \A k \in breaks : k <= j) + 1
ColumnOfOffset(c, p) == p - LineStartOf(c, p) + 1
\* the full text of the line that holds offset p
LineTextAt(c, p) == line_text_of(c, LineOfOffset(c, p) - 1)

\* no pattern other than the catch-all matches at offset p
Unrecognized(c, p) ==
    \A i \in 1..Len(token_specification) :
        token_specification[i] # "MISMATCH" => Match(token_specification[i], c, p) = NoMatch

(* C12: tokenize fails at the leftmost character at which no recognized    *)
(* pattern matches (the opening quote of an unterminated string included)  *)
(* and at no other: every step before it consumes a recognized match, the  *)
(* error names that character, its 1-based line and its 1-based column,    *)
(* and once it is raised nothing more is scanned or returned.              *)

C12_FailsAtFirstInvalid ==
    /\ [][ (Scanning /\ pos < Len(code))
             => IF Unrecognized(code, pos)
                THEN /\ tok_status' = "failed"
                     /\ tok_error'.exc = "RuntimeError"
                     /\ tok_error'.character = <<Ch(code, pos)>>
                     /\ tok_error'.line = LineOfOffset(code, pos)
                     /\ tok_error'.col = ColumnOfOffset(code, pos)
                     /\ pos' = pos
                ELSE /\ tok_status' = "scanning"
                     /\ tok_error' = NoErr
                     /\ pos' > pos
         ]_vars
    /\ [][tok_status = "failed" => calls' = calls + 1]_vars
    /\ [](tok_status = "failed" /\ Ch(code, pos) = Quote
            => m_STRING(code, pos) = NoMatch /\ tok_error.character = <<Quote>>)

(* C13: when tokenize fails on a text of several lines, the line of the    *)
(* error is the line of the offending character, every newline before it   *)
(* counted, and the source line of the error is the text of that line.     *)

C13_ErrorOnTrueLine ==
    (tok_status = "failed" /\ \E i \in 1..Len(code) : code[i] = Newline)
        => /\ tok_error.line = LineOfOffset(code, pos)
           /\ tok_error.line_text = LineTextAt(code, pos)

(* C14: every token carries the 1-based line and column of the offset      *)
(* where its text starts, and the full text of the line holding that       *)
(* offset, in which the token's text stands at index column - 1.           *)

C14_TokensLocateTheirText ==
    [][ (Scanning /\ NextGroup \in EmittedKinds \cup {"IDENT"})
          => /\ Len(tokens') = Len(tokens) + 1
             /\ LET t == tokens'[Len(tokens')] IN
                /\ t.value = SubSeq(code, pos + 1, pos')
                /\ t.line = LineOfOffset(code, pos)
                /\ t.col = ColumnOfOffset(code, pos)
                /\ t.line_text = LineTextAt(code, pos)
                /\ At(t.line_text, t.col - 1, t.value)
      ]_vars

----------------------------------------------------------------------------
(* C15: the outcome of a call of tokenize is that of a first call on the   *)
(* same text (the same tokens with the same kinds, texts, lines, columns   *)
(* and source lines, or the same error), whatever calls came before it:    *)
(* nothing of an earlier call survives into a later one.                   *)

C15_NoStateBetweenCalls ==
    (calls > 1 /\ tok_status \in {"done", "failed"})
        => LET first == tokenize(code) IN
           /\ tok_status = first.status
           /\ tok_status = "done" => tokens = first.tokens
           /\ tok_status = "failed" => tok_error = first.error

\* a second call, on a text of two lines, has returned its tokens
C15_Witness ==
    /\ calls = 2
    /\ tok_status = "done"
    /\ code = words_on_line_2
    /\ Len(tokens) = 4
    /\ tokens[2].line = 2

----------------------------------------------------------------------------
(* C16: parsing an empty token sequence returns a Program with no          *)
(* statement: nothing is raised, the cursor does not move and no error     *)
(* context is built.                                                       *)

C16_EmptyInputEmptyProgram ==
    tokens = <<>>
        => /\ parse_status \in {"parsing", "returned"}
           /\ parse_error = NoErr
           /\ stmts = <<>>
           /\ ppos = 0
           /\ parse(tokens) = PNode(NoErr, 0, Program(<<>>))

\* parse has returned on the empty token list of a text of comments only
C16_Witness ==
    /\ parse_status = "returned"
    /\ code = only_comments
    /\ tokens = <<>>
    /\ stmts = <<>>

----------------------------------------------------------------------------
(* What the claims on the parser's errors speak of *)

\* the token the parser is at, and the one after it
CursorToken == peek(tokens, ppos)
IsKeyword(token, word) == token.type = "KEYWORD" /\ token.value = word
\* the exception that left parse is a SyntaxError that starts with
\* filename:line:col: and shows the source line and a caret under col
IsLocated(e) ==
    /\ e.exc = "SyntaxError"
    /\ e.located
    /\ e.context
    /\ e.pointer_pad = Len(IntToDigits(e.line)) + 2 + (e.col - 1)

(* C17: a statement that starts with var and goes on with anything but an  *)
(* identifier makes parse fail with a SyntaxError that names the file,     *)
(* says `Expected IDENT` and carries the line of that declaration.         *)

C17_VarWithoutName ==
    [][ (Parsing /\ IsKeyword(CursorToken, <<"v", "a", "r">>)
           /\ peek(tokens, ppos + 1).type # "IDENT")
          => /\ parse_status' = "raised"
             /\ parse_error'.exc = "SyntaxError"
             /\ parse_error'.located
             /\ parse_error'.message.fmt = "Expected {}, got {}"
             /\ parse_error'.message.kinds[1] = "IDENT"
             /\ parse_error'.line = CursorToken.line
      ]_vars

(* C18: whatever leaves parse is a located SyntaxError: it carries the     *)
(* line and the column of the token at the cursor, or of the last token    *)
(* when the cursor is at or past the end, with that token's source line    *)
(* and a caret under its column; no exception of another type leaves.      *)

C18_EveryFailureLocated ==
    parse_status = "raised"
        => /\ IsLocated(parse_error)
           /\ LET token == IF ppos < Len(tokens) THEN tokens[ppos + 1]
                           ELSE tokens[Len(tokens)]
              IN  /\ parse_error.line = token.line
                  /\ parse_error.col = token.col
                  /\ parse_error.line_text = token.line_text

(* C19: a statement that starts with if, for, match, return or raise, at   *)
(* top level or as a statement of a function body, makes parse fail with   *)
(* a located SyntaxError saying that the statement is not yet implemented: *)
(* no Program is returned, and no IfStmt, ForStmt, MatchStmt, ReturnStmt   *)
(* or RaiseStmt node is ever built.                                        *)

StubWords ==
    { <<"i", "f">>, <<"f", "o", "r">>, <<"m", "a", "t", "c", "h">>,
      <<"r", "e", "t", "u", "r", "n">>, <<"r", "a", "i", "s", "e">> }
NotYetImplemented ==
    { "If statement parsing not yet implemented", "For loop parsing not yet implemented",
      "Match statement parsing not yet implemented",
      "Return statement parsing not yet implemented",
      "Raise statement parsing not yet implemented" }
StubKinds == {"IfStmt", "ForStmt", "MatchStmt", "ReturnStmt", "RaiseStmt"}

IsStubStart(token) == token.type = "KEYWORD" /\ token.value \in StubWords

\* from index p on, the tokens def IDENT ( ) { open a function body
OpensBody(toks, p) ==
    /\ IsKeyword(peek(toks, p), <<"d", "e", "f">>)
    /\ peek(toks, p + 1).type = "IDENT"
    /\ peek(toks, p + 2).type = "LPAREN"
    /\ peek(toks, p + 3).type = "RPAREN"
    /\ peek(toks, p + 4).type = "LBRACE"
\* a declaration `var IDENT` not followed by a type or a value
PlainVarAt(toks, p) ==
    /\ IsKeyword(peek(toks, p), <<"v", "a", "r">>)
    /\ peek(toks, p + 1).type = "IDENT"
    /\ peek(toks, p + 2).type \notin {"COLON", "ASSIGN"}
\* the index of the stub keyword that the statement starting at index p
\* comes to first: that statement starts with it, or is a function whose
\* body, after plain declarations if any, comes to it; -1 when none
RECURSIVE StubReached(_, _, _)
StubReached(toks, p, depth) ==
    IF IsStubStart(peek(toks, p)) THEN p
    ELSE IF OpensBody(toks, p) THEN StubReached(toks, p + 5, depth + 1)
    ELSE IF depth > 0 /\ PlainVarAt(toks, p) THEN StubReached(toks, p + 2, depth)
    ELSE -1

\* the node, or one of the statements nested in it, is of a stub kind
RECURSIVE HasStubNode(_)
HasStubNode(node) ==
    \/ node.kind \in StubKinds
    \/ node.kind = "FunctionDef" /\ HasStubNode(node.body)
    \/ node.kind = "Block"
         /\ \E i \in 1..Len(node.statements) : HasStubNode(node.statements[i])

C20_LinearCursor ==
    /\ [][ /\ tokens' = tokens
           /\ ppos' >= ppos
           /\ (parse_status' = "parsing" => ppos' > ppos)
           /\ (parse_status' = "returned" => ppos' = ppos /\ ppos = Len(tokens))
           /\ parse_status' \in {"parsing", "returned", "raised"}
         ]_vars
    /\ [](\A p \in 0..Len(tokens) :
            /\ expect(tokens, p, peek(tokens, p).type, None_).pos = p + 1
            /\ p < Len(tokens) => expect(tokens, p, peek(tokens, p).type, None_).tok = tokens[p + 1])
    /\ [](parse_status = "raised" => parse_error.exc = "SyntaxError" /\ parse_error.located)
    /\ [](parse_status = "returned" => parse_error = NoErr /\ Len(stmts) <= Len(tokens))

----------------------------------------------------------------------------
(* C21: a function definition with a return-type annotation,               *)
(* def NAME ( params ) -> TYPE { ... }, is tokenized and parsed into a     *)
(* FunctionDef whose return_type is TYPE; without the annotation the       *)
(* return_type is null.                                                    *)

C21_ReturnTypeParsed ==
    /\ code = def_return_type
         => /\ parse_status # "raised"
            /\ parse_status = "returned"
                 => stmts = <<FunctionDef(<<"f">>, <<>>, int_, Block(<<>>))>>
    /\ code = def_empty
         => /\ parse_status # "raised"
            /\ parse_status = "returned"
                 => stmts = <<FunctionDef(<<"f">>, <<>>, None_, Block(<<>>))>>

(* C22: the items of a print argument list and of a parameter list are     *)
(* separated by commas: a print call or a function definition in which     *)
(* two arguments or two parameters follow each other with no comma         *)
(* between them, or with two commas, is rejected with a SyntaxError.       *)

IsArgument(token) == token.type \in {"NUMBER", "STRING", "IDENT"}
\* print ( argument argument, or print ( argument , ,
PrintListMalformed(toks, p) ==
    /\ IsKeyword(peek(toks, p), print_)
    /\ peek(toks, p + 1).type = "LPAREN"
    /\ IsArgument(peek(toks, p + 2))
    /\ \/ IsArgument(peek(toks, p + 3))
       \/ peek(toks, p + 3).type = "COMMA" /\ peek(toks, p + 4).type = "COMMA"
\* def IDENT ( IDENT IDENT, or def IDENT ( IDENT , ,
ParamListMalformed(toks, p) ==
    /\ IsKeyword(peek(toks, p), <<"d", "e", "f">>)
    /\ peek(toks, p + 1).type = "IDENT"
    /\ peek(toks, p + 2).type = "LPAREN"
    /\ peek(toks, p + 3).type = "IDENT"
    /\ \/ peek(toks, p + 4).type = "IDENT"
       \/ peek(toks, p + 4).type = "COMMA" /\ peek(toks, p + 5).type = "COMMA"

C22_CommasRequired ==
    [][ (Parsing /\ (PrintListMalformed(tokens, ppos) \/ ParamListMalformed(tokens, ppos)))
          => /\ parse_status' = "raised"
             /\ parse_error'.exc = "SyntaxError"
             /\ stmts' = stmts
      ]_vars

(* C23: a missing closer is named.  A print argument list or a parameter   *)
(* list that runs into a token that cannot go on with it, or into the end  *)
(* of the stream, fails with `Expected RPAREN`; a function body that runs  *)
(* into the end of the stream fails with `Expected RBRACE`.                *)

\* print ( argument, then a keyword or the end of the stream
PrintListUnclosed(toks, p) ==
    /\ IsKeyword(peek(toks, p), print_)
    /\ peek(toks, p + 1).type = "LPAREN"
    /\ IsArgument(peek(toks, p + 2))
    /\ peek(toks, p + 3).type \in {"KEYWORD", "None"}
\* def IDENT ( IDENT, then a brace, a keyword or the end of the stream
ParamListUnclosed(toks, p) ==
    /\ IsKeyword(peek(toks, p), <<"d", "e", "f">>)
    /\ peek(toks, p + 1).type = "IDENT"
    /\ peek(toks, p + 2).type = "LPAREN"
    /\ peek(toks, p + 3).type = "IDENT"
    /\ peek(toks, p + 4).type \in {"LBRACE", "KEYWORD", "None"}
\* def IDENT ( ) {, then the end of the stream
BodyUnclosed(toks, p) == OpensBody(toks, p) /\ peek(toks, p + 5).type = "None"

\* the exception is a SyntaxError saying `Expected <closer>`
ExpectedCloser(e, closer) ==
    /\ e.exc = "SyntaxError"
    /\ e.message.fmt = "Expected {}, got {}"
    /\ e.message.kinds[1] = closer

C23_MissingCloserNamed ==
    [][ Parsing =>
          /\ (PrintListUnclosed(tokens, ppos) \/ ParamListUnclosed(tokens, ppos))
               => parse_status' = "raised" /\ ExpectedCloser(parse_error', "RPAREN")
          /\ BodyUnclosed(tokens, ppos)
               => parse_status' = "raised" /\ ExpectedCloser(parse_error', "RBRACE")
      ]_vars

(* C24: a syntax error reports the line of the malformed construct.  When  *)
(* a print call's argument list is left unclosed on line L and the next    *)
(* statement starts on line L + 1, the error carries line L and the text   *)
(* of line L.                                                              *)

\* print ( argument on one line, and a keyword opening the next line
PrintUnclosedBeforeNextLine(toks, p) ==
    /\ PrintListUnclosed(toks, p)
    /\ peek(toks, p + 3).type = "KEYWORD"
    /\ peek(toks, p + 2).line = peek(toks, p).line
    /\ peek(toks, p + 3).line = peek(toks, p).line + 1

C24_ErrorOnLineOfConstruct ==
    [][ (Parsing /\ PrintUnclosedBeforeNextLine(tokens, ppos))
          => /\ parse_status' = "raised"
             /\ parse_error'.exc = "SyntaxError"
             /\ parse_error'.located
             /\ parse_error'.line = CursorToken.line
             /\ parse_error'.line_text = CursorToken.line_text
      ]_vars

(* C25: the command-line runner gives each error kind of the core          *)
(* (lexical, syntax, name-resolution, definition-conflict, unsupported-    *)
(* construct) a message prefix of its own and exits with code 1 for every  *)
(* one of them; a run with no error does not exit with code 1.             *)

\* the classes of Python's hierarchy an exception of class cls is an instance
\* of (NotImplementedError derives from RuntimeError)
Bases(cls) ==
    IF cls = "NotImplementedError"
    THEN {"NotImplementedError", "RuntimeError", "Exception"}
    ELSE {cls, "Exception"}

\* main's except clauses, tried in order
message_prefix(cls) ==
    IF "SyntaxError" \in Bases(cls) THEN "Syntax Error: "
    ELSE IF "RuntimeError" \in Bases(cls) THEN "Runtime Error: "
    ELSE "Unexpected Error: "

\* every except clause ends in sys.exit(1); main returning gives 0
exit_code(st) == IF st = "failed" THEN 1 ELSE 0

\* handy.py was run on a source file and the process is over
RunnerOver == calls = 1 /\ status \in {"done", "failed"}

CoreErrorKinds ==
    {"lexical", "syntax", "name-resolution", "definition-conflict", "unsupported-construct"}
\* the exception class the core raises for each kind
ClassOfKind(k) ==
    CASE k = "lexical" -> "RuntimeError"
      [] k = "syntax" -> "SyntaxError"
      [] k = "name-resolution" -> "NameError"
      [] k = "definition-conflict" -> "ValueError"
      [] k = "unsupported-construct" -> "NotImplementedError"
\* the kind of the exception e, "other" when it is none of the five
KindOfError(e) ==
    CASE e.exc = "RuntimeError" -> "lexical"
      [] e.exc = "SyntaxError" -> "syntax"
      [] e.exc = "NameError" -> "name-resolution"
      [] e.exc = "ValueError" ->
           IF e.fmt = "Constant '{}' already defined" THEN "definition-conflict" ELSE "other"
      [] e.exc = "NotImplementedError" -> "unsupported-construct"
      [] OTHER -> "other"

C25_PrefixPerKindExitOne ==
    RunnerOver =>
        /\ (status = "failed" /\ KindOfError(error) \in CoreErrorKinds) =>
              /\ exit_code(status) = 1
              /\ \A k \in CoreErrorKinds \ {KindOfError(error)} :
                     message_prefix(ClassOfKind(k)) # message_prefix(error.exc)
        /\ status = "done" => exit_code(status) # 1

(* C26: an expression is exactly one token.  Where a declaration has       *)
(* reached its initializer, a NUMBER or STRING token gives a Literal with  *)
(* the token's text, an IDENT token an Identifier, one token is consumed,  *)
(* and every other token, the end-of-stream sentinel included, fails with  *)
(* a located `Unexpected token in expression` SyntaxError; the initializer *)
(* is never a null node.                                                   *)

\* var IDENT = or const IDENT = at p: the next token is the initializer
InitializerAt(toks, p) ==
    /\ \/ IsKeyword(peek(toks, p), <<"v", "a", "r">>)
       \/ IsKeyword(peek(toks, p), <<"c", "o", "n", "s", "t">>)
    /\ peek(toks, p + 1).type = "IDENT"
    /\ peek(toks, p + 2).type = "ASSIGN"

\* the node the grammar gives for a one-token expression
ExpressionNode(token) ==
    IF token.type = "IDENT" THEN Identifier(token.value) ELSE Literal(token.value)

C26_ExpressionIsOneToken ==
    [][ (Parsing /\ InitializerAt(tokens, ppos)) =>
          IF IsArgument(peek(tokens, ppos + 3))
          THEN /\ parse_status' = "parsing"
               /\ ppos' = ppos + 4
               /\ Len(stmts') = Len(stmts) + 1
               /\ stmts'[Len(stmts')].value = ExpressionNode(peek(tokens, ppos + 3))
          ELSE /\ parse_status' = "raised"
               /\ parse_error'.exc = "SyntaxError"
               /\ parse_error'.located
               /\ parse_error'.message.fmt = "Unexpected token in expression: {} with value '{}'"
      ]_vars

(* C27: after a block comment that spans several lines the line counter    *)
(* has grown by exactly the number of newlines inside the comment and the  *)
(* column origin is the offset just after the comment's last newline; a    *)
(* token that follows the comment on its last line gets the line the       *)
(* counter then holds (the true line, when the counter was true before the *)
(* comment) and a column counted from the start of that line.              *)

\* the number of newlines of c between the offsets p (included) and q
NewlinesBetween(c, p, q) == Cardinality({j \in p..(q - 1) : Ch(c, j) = Newline})

\* a block comment that holds a newline ends at offset p of c
SpanningCommentEndsAt(c, p) ==
    \E q \in 0..(p - 6) : \E mo \in {get_token(c, q)} :
        /\ mo.lastgroup = "BLOCK_COMMENT"
        /\ mo.end = p
        /\ NewlinesBetween(c, q, p) > 0

C28_ScanProgresses ==
    /\ [](Scanning /\ NextGroup # "None" => get_token(code, pos).end > pos)
    /\ [](pos <= Len(code))
    /\ [][ (Scanning /\ tok_status' = "scanning")
             => pos' > pos /\ pos' = get_token(code, pos).end ]_vars
    /\ [][ (Scanning /\ tok_status' = "done") => pos = Len(code) /\ pos' = pos ]_vars

\* a text of several matches has been scanned to its end
C28_Witness ==
    /\ tok_status = "done"
    /\ pos = Len(code)
    /\ code = words_on_line_2
    /\ Len(tokens) = 4

(* C29: in a run of handy.py the stages are strictly ordered: tokenize,    *)
(* then parse, then evaluate, each over before the next starts.  If the    *)
(* source has a lexical or a syntax error anywhere, even after valid       *)
(* print statements, no statement is evaluated, the environment holds      *)
(* nothing and no program output is emitted; and a lexical error is the    *)
(* one reported even when a malformed statement stands before it.          *)

SourceHasLexicalError == tokenize(code).status = "failed"
SourceHasSyntaxError ==
    /\ ~SourceHasLexicalError
    /\ parse(tokenize(code).tokens).exc # NoErr

C29_StagesInOrder ==
    (SourceHasLexicalError \/ SourceHasSyntaxError) =>
        /\ status \in {"loaded", "failed"}
        /\ output = <<>>
        /\ env_vars = EmptyDict /\ env_consts = EmptyDict
        /\ pc = 1 /\ argi = 0 /\ program = <<>>
        /\ (status = "failed" /\ SourceHasLexicalError) => error = tokenize(code).error
        /\ (status = "failed" /\ SourceHasSyntaxError)
              => error = parse(tokenize(code).tokens).exc

\* the run on a source with a malformed statement after a valid print has
\* ended, with nothing printed
C29_Witness ==
    /\ code = print_then_syntax
    /\ status = "failed"
    /\ error.exc = "SyntaxError"
    /\ output = <<>>

(* C30: a constant declaration evaluates its initializer before it checks  *)
(* for a conflict.  An initializer that is an unbound identifier fails     *)
(* the declaration with the NameError of the lookup even when the constant *)
(* name is already bound; a declaration whose initializer evaluates and    *)
(* whose name is already a constant fails with the ValueError; and every   *)
(* failing declaration leaves the constants table as it was.               *)

\* the initializer of the declaration is an identifier bound in neither table
UnboundInitializer(node) ==
    /\ node.value.kind = "Identifier"
    /\ node.value.name \notin DOMAIN env_vars
    /\ node.value.name \notin DOMAIN env_consts

C30_InitializerBeforeConflict ==
    [][ (AtStmt /\ program[pc].kind = "ConstDecl") =>
          /\ UnboundInitializer(program[pc])
               => /\ status' = "failed"
                  /\ error'.exc = "NameError"
                  /\ error'.arg = program[pc].value.name
          /\ (~UnboundInitializer(program[pc]) /\ program[pc].name \in DOMAIN env_consts
                 /\ eval(program[pc].value, CurState).exc = NoErr)
               => /\ status' = "failed"
                  /\ error'.exc = "ValueError"
                  /\ error'.arg = program[pc].name
          /\ status' = "failed" => env_consts' = env_consts /\ env_vars' = env_vars
          /\ status' # "failed" => program[pc].name \notin DOMAIN env_consts
      ]_vars

\* a declaration of a constant that is already bound has failed on its
\* unbound initializer
C30_Witness ==
    /\ status = "failed"
    /\ pc <= Len(program)
    /\ program[pc].kind = "ConstDecl"
    /\ program[pc].name \in DOMAIN env_consts
    /\ UnboundInitializer(program[pc])
    /\ error.exc = "NameError"

====
